---- MODULE Spec2Model ----
(***************************************************************************)
(* A model of trscrape's tracker scrape engine: the BEP 15 UDP session     *)
(* (src/src/tracker/udp.rs), the binary cursor (src/src/util.rs), the      *)
(* HTTP scrape and its response decoder (src/src/tracker/http.rs), the     *)
(* overall timeout of Tracker::scrape (src/src/tracker/mod.rs) and the     *)
(* caller in src/src/main.rs.                                              *)
(*                                                                         *)
(* Time is counted in whole seconds.  A datagram is a sequence of bytes    *)
(* (0..255).  A u32 is an integer; every u32 of the model is below 2^31.   *)
(* A u64 is the record [hi, lo] of its two 32-bit halves.                  *)
(***************************************************************************)
EXTENDS Integers, Sequences, FiniteSets, TLC

VARIABLES
    tracker,           \* Arguments::tracker, "Udp" or "Http"
    hashes,            \* Arguments::hashes, the requested info-hashes
    timeout,           \* Arguments::timeout, in seconds
    tracker_timeout,   \* consts::TRACKER_TIMEOUT, in seconds
    pc,                \* where the program is suspended
    now,               \* the instant of the last event
    runDeadline,       \* deadline of the timeout() in run
    trkDeadline,       \* deadline of the timeout() in Tracker::scrape
    conn,              \* UdpTrackerSession::conn
    transaction_id,    \* the transaction_id local of connect / scrape
    msg,               \* the msg argument of the running chat
    n,                 \* the n local of the running chat
    attDeadline,       \* deadline of the timeout() of the running chat
    result,            \* what Tracker::scrape returned, if it did
    output,            \* the entries run printed
    sends,             \* history: datagrams transmitted in this call
    k,                 \* history: index of the last transmission in its exchange
    draws,             \* history: calls of make_transaction_id
    wire,              \* history: the last datagram transmitted
    exchFirst,         \* history: the first datagram transmitted in the exchange
    received,          \* history: the datagram chat returned in the last step
    event,             \* history: what the last step was
    dropped,           \* history: transaction ID of the SCRAPE exchange last dropped
    input,             \* the argument of a function exercised on its own
    returned           \* what that function returned

vars == <<tracker, hashes, timeout, tracker_timeout, pc, now, runDeadline,
          trkDeadline, conn, transaction_id, msg, n, attDeadline, result, output,
          sends, k, draws,
          wire, exchFirst, received, event, dropped, input,
          returned>>

(* the variables of the functions exercised on their own *)
pure == <<input, returned>>

config == <<tracker, hashes, timeout, tracker_timeout>>

-----------------------------------------------------------------------------
(* Bounds of the model *)

MaxHashes == 2
MaxSends == 11
MaxBufLen == 25

-----------------------------------------------------------------------------
(* Program constants *)

PROTOCOL_ID == [hi |-> 1047, lo |-> 655366528]    \* 0x41727101980
CONNECT_ACTION == 0
SCRAPE_ACTION == 2
ERROR_ACTION == 3
InfoHashLENGTH == 20
CONNECTION_LIFETIME == 60
CHAT_TIMEOUT == 15
MAX_SHIFT == 8

None == [some |-> FALSE]
Some(v) == [some |-> TRUE, val |-> v]

Min2(a, b) == IF a <= b THEN a ELSE b

RECURSIVE Pow2(_)
Pow2(e) == IF e = 0 THEN 1 ELSE 2 * Pow2(e - 1)

-----------------------------------------------------------------------------
(* Big-endian encoding: BufMut::put_u32 / put_u64 *)

put_u32(v) ==
    << (v \div 16777216) % 256, (v \div 65536) % 256, (v \div 256) % 256, v % 256 >>

put_u64(v) == put_u32(v.hi) \o put_u32(v.lo)

(* Buf::get_u32 / get_u64 on the first bytes of b *)
get_u32(b) == ((b[1] * 256 + b[2]) * 256 + b[3]) * 256 + b[4]

get_u64(b) == [hi |-> get_u32(SubSeq(b, 1, 4)), lo |-> get_u32(SubSeq(b, 5, 8))]

Drop(b, w) == SubSeq(b, w + 1, Len(b))

-----------------------------------------------------------------------------
(* The binary cursor, util.rs.  A cursor is the sequence of remaining      *)
(* bytes; an extraction returns [ok, val, rest].                           *)

Short == [ok |-> FALSE, err |-> "Short"]

(* mutant: exactly four remaining bytes are not enough *)
try_from_buf_u32_strict(buf) ==
    IF Len(buf) > 4
    THEN [ok |-> TRUE, val |-> get_u32(buf), rest |-> Drop(buf, 4)]
    ELSE Short

try_from_buf_u32(buf) ==
    IF Len(buf) >= 4
    THEN [ok |-> TRUE, val |-> get_u32(buf), rest |-> Drop(buf, 4)]
    ELSE Short

try_from_buf_u64(buf) ==
    IF Len(buf) >= 8
    THEN [ok |-> TRUE, val |-> get_u64(buf), rest |-> Drop(buf, 8)]
    ELSE Short

(* mutant: the second u32 is taken for incomplete, the third for downloaded *)
try_from_buf_Scrape_swapped(buf) ==
    LET seeders == try_from_buf_u32(buf) IN
    IF ~seeders.ok THEN Short ELSE
    LET completed == try_from_buf_u32(seeders.rest) IN
    IF ~completed.ok THEN Short ELSE
    LET leechers == try_from_buf_u32(completed.rest) IN
    IF ~leechers.ok THEN Short ELSE
    [ok |-> TRUE,
     val |-> [complete |-> seeders.val,
              incomplete |-> completed.val,
              downloaded |-> leechers.val],
     rest |-> leechers.rest]

(* impl TryFromBuf for Scrape: complete, downloaded, incomplete on the wire *)
try_from_buf_Scrape(buf) ==
    LET seeders == try_from_buf_u32(buf) IN
    IF ~seeders.ok THEN Short ELSE
    LET completed == try_from_buf_u32(seeders.rest) IN
    IF ~completed.ok THEN Short ELSE
    LET leechers == try_from_buf_u32(completed.rest) IN
    IF ~leechers.ok THEN Short ELSE
    [ok |-> TRUE,
     val |-> [complete |-> seeders.val,
              incomplete |-> leechers.val,
              downloaded |-> completed.val],
     rest |-> leechers.rest]

(* where a failed extraction of a Scrape leaves the cursor: behind the u32s *)
(* it could still read                                                      *)
cursor_after_failed_Scrape(buf) == Drop(buf, 4 * (Len(buf) \div 4))

(* TryBytes::try_get_all::<Scrape> *)
RECURSIVE try_get_all_from(_, _)
try_get_all_from(buf, values) ==
    IF Len(buf) = 0 THEN [ok |-> TRUE, val |-> values, rest |-> buf]
    ELSE LET r == try_from_buf_Scrape(buf) IN
         IF ~r.ok THEN Short
         ELSE try_get_all_from(r.rest, Append(values, r.val))

try_get_all(buf) == try_get_all_from(buf, << >>)

(* TryBytes::into_string_lossy, for bytes that are ASCII or 0xFF: an ASCII *)
(* byte is its character, 0xFF is never valid UTF-8 and becomes U+FFFD.    *)
into_string_lossy(buf) ==
    [i \in 1..Len(buf) |-> IF buf[i] < 128 THEN buf[i] ELSE 65533]

-----------------------------------------------------------------------------
(* Results and errors.  TrackerError and UdpTrackerError are records       *)
(* [kind, ...]; a Result is [ok |-> TRUE, val] or [ok |-> FALSE, err].     *)

Ok(v) == [ok |-> TRUE, val |-> v]
Err(e) == [ok |-> FALSE, err |-> e]

PacketLen == [kind |-> "PacketLen"]
BadAction(e, g) == [kind |-> "BadAction", expected |-> e, got |-> g]
XactionMismatch(e, g) == [kind |-> "XactionMismatch", expected |-> e, got |-> g]
Failure(m) == [kind |-> "Failure", message |-> m]
Timeout == [kind |-> "Timeout"]
IoError(which) == [kind |-> which]
HttpError(which) == [kind |-> which]
ParseResponse(e) == [kind |-> "ParseResponse", source |-> e]
NoData == [kind |-> "NoData"]
TrailingData == [kind |-> "TrailingData"]
Bendy(what, context) == [kind |-> "Bendy", what |-> what, context |-> context]

-----------------------------------------------------------------------------
(* Requests, udp.rs *)

(* impl From<UdpConnectionRequest> for Bytes *)
UdpConnectionRequest(xid) ==
    put_u64(PROTOCOL_ID) \o put_u32(CONNECT_ACTION) \o put_u32(xid)

RECURSIVE Concat(_)
Concat(ss) == IF Len(ss) = 0 THEN << >> ELSE Head(ss) \o Concat(Tail(ss))

(* impl From<UdpScrapeRequest<'_>> for Bytes *)
UdpScrapeRequest(connection_id, xid, info_hashes) ==
    put_u64(connection_id) \o put_u32(SCRAPE_ACTION) \o put_u32(xid)
        \o Concat(info_hashes)

-----------------------------------------------------------------------------
(* Responses, udp.rs *)

(* mutant: the action of a CONNECT response is not checked *)
UdpConnectionResponse_try_from_any(buf) ==
    LET action == try_from_buf_u32(buf) IN
    IF ~action.ok THEN Err(PacketLen) ELSE
    LET xid == try_from_buf_u32(action.rest) IN
    IF ~xid.ok THEN Err(PacketLen) ELSE
    LET cid == try_from_buf_u64(xid.rest) IN
    IF ~cid.ok THEN Err(PacketLen) ELSE
    Ok([transaction_id |-> xid.val, connection_id |-> cid.val])

(* impl TryFrom<Bytes> for UdpConnectionResponse *)
UdpConnectionResponse_try_from(buf) ==
    LET action == try_from_buf_u32(buf) IN
    IF ~action.ok THEN Err(PacketLen) ELSE
    IF action.val # CONNECT_ACTION
    THEN Err(BadAction(CONNECT_ACTION, action.val)) ELSE
    LET xid == try_from_buf_u32(action.rest) IN
    IF ~xid.ok THEN Err(PacketLen) ELSE
    LET cid == try_from_buf_u64(xid.rest) IN
    IF ~cid.ok THEN Err(PacketLen) ELSE
    Ok([transaction_id |-> xid.val, connection_id |-> cid.val])

(* impl TryFrom<Bytes> for UdpScrapeResponse *)
UdpScrapeResponse_try_from(buf) ==
    LET action == try_from_buf_u32(buf) IN
    IF ~action.ok THEN Err(PacketLen) ELSE
    IF action.val # SCRAPE_ACTION
    THEN Err(BadAction(SCRAPE_ACTION, action.val)) ELSE
    LET xid == try_from_buf_u32(action.rest) IN
    IF ~xid.ok THEN Err(PacketLen) ELSE
    LET scrapes == try_get_all(xid.rest) IN
    IF ~scrapes.ok THEN Err(PacketLen) ELSE
    Ok([transaction_id |-> xid.val, scrapes |-> scrapes.val])

(* mutant: the error action is not singled out *)
Response_from_bytes_ok_plain(buf, parsed) == parsed

(* Response::from_bytes followed by Response::ok; parsed is what the       *)
(* parser gives for buf                                                    *)
Response_from_bytes_ok(buf, parsed) ==
    LET action == try_from_buf_u32(buf) IN
    IF action.ok /\ action.val = ERROR_ACTION
    THEN LET xid == try_from_buf_u32(action.rest) IN
         IF ~xid.ok THEN Err(PacketLen)
         ELSE Err(Failure(into_string_lossy(xid.rest)))
    ELSE parsed

(* mutant: the transaction ID is not compared *)
CheckXaction_unchecked(resp, xid) == resp

(* the transaction ID comparison of connect and of scrape *)
CheckXaction(resp, xid) ==
    IF ~resp.ok THEN resp
    ELSE IF resp.val.transaction_id # xid
         THEN Err(XactionMismatch(xid, resp.val.transaction_id))
         ELSE resp

(* UdpTrackerSession::connect from the reply on: Result<Connection> *)
connect_reply(raw_resp, xid, t) ==
    LET resp == CheckXaction(
                  Response_from_bytes_ok(raw_resp,
                                         UdpConnectionResponse_try_from(raw_resp)),
                  xid) IN
    IF ~resp.ok THEN resp
    ELSE Ok([id |-> resp.val.connection_id,
             expiration |-> t + CONNECTION_LIFETIME])

(* mutant: an earlier insert is kept, a later one for the same key is lost *)
ZipCollect_first_wins(hs, scrapes) ==
    LET m == Min2(Len(hs), Len(scrapes))
        first(h) == CHOOSE i \in 1..m :
                       /\ hs[i] = h
                       /\ \A j \in 1..m : hs[j] = h => i <= j
    IN [h \in {hs[i] : i \in 1..m} |-> scrapes[first(h)]]

(* std::iter::zip(hashes.to_vec(), resp.scrapes).collect() into a HashMap: *)
(* zip stops at the shorter side, a later insert replaces an earlier one   *)
ZipCollect(hs, scrapes) ==
    LET m == Min2(Len(hs), Len(scrapes))
        last(h) == CHOOSE i \in 1..m :
                      /\ hs[i] = h
                      /\ \A j \in 1..m : hs[j] = h => j <= i
    IN [h \in {hs[i] : i \in 1..m} |-> scrapes[last(h)]]

(* mutant: a record count that differs from the hash count is an error *)
scrape_reply_strict(buf, xid, hs) ==
    LET resp == CheckXaction(
                  Response_from_bytes_ok(buf, UdpScrapeResponse_try_from(buf)),
                  xid) IN
    IF ~resp.ok THEN resp
    ELSE IF Len(resp.val.scrapes) # Len(hs) THEN Err(PacketLen)
         ELSE Ok(ZipCollect(hs, resp.val.scrapes))

(* mutant: the transaction ID is compared before anything else is parsed *)
scrape_reply_xid_first(buf, xid, hs) ==
    LET resp == CheckXaction(
                  Response_from_bytes_ok(buf, UdpScrapeResponse_try_from(buf)),
                  xid) IN
    IF Len(buf) >= 8 /\ get_u32(Drop(buf, 4)) # xid
    THEN Err(XactionMismatch(xid, get_u32(Drop(buf, 4))))
    ELSE IF ~resp.ok THEN resp
    ELSE Ok(ZipCollect(hs, resp.val.scrapes))

(* UdpTrackerSession::scrape from the reply on: Result<ScrapeMap> *)
scrape_reply(buf, xid, hs) ==
    LET resp == CheckXaction(
                  Response_from_bytes_ok(buf, UdpScrapeResponse_try_from(buf)),
                  xid) IN
    IF ~resp.ok THEN resp
    ELSE Ok(ZipCollect(hs, resp.val.scrapes))

-----------------------------------------------------------------------------
(* The HTTP scrape response, http.rs.  The bencode tokenizer is the bendy  *)
(* library; the model starts from the objects it hands over: an integer    *)
(* BInt, a byte string BBytes, a list BList, or a dictionary BDict whose   *)
(* pairs come in the order of the input.                                   *)

BInt(i) == [t |-> "int", i |-> i]
BBytes(b) == [t |-> "bytes", b |-> b]
BList == [t |-> "list"]
BDict(pairs) == [t |-> "dict", pairs |-> pairs]
Pair(key, v) == [key |-> key, v |-> v]

K_files == <<102, 105, 108, 101, 115>>
K_failure_reason ==
    <<102, 97, 105, 108, 117, 114, 101, 32, 114, 101, 97, 115, 111, 110>>
K_complete == <<99, 111, 109, 112, 108, 101, 116, 101>>
K_downloaded == <<100, 111, 119, 110, 108, 111, 97, 100, 101, 100>>
K_incomplete == <<105, 110>> \o K_complete

(* u32::decode_bencode_object *)
u32_decode_bencode_object(obj, context) ==
    IF obj.t # "int" THEN Err(Bendy("UnexpectedToken", context))
    ELSE IF obj.i < 0 THEN Err(Bendy("MalformedContent", context))
    ELSE Ok(obj.i)

(* mutant: a key that is not one of the three counters is an error *)
RECURSIVE decode_files_value_rejecting(_, _)
decode_files_value_rejecting(pairs, acc) ==
    IF Len(pairs) = 0
    THEN IF ~acc.complete.some
         THEN Err(Bendy("MissingField", "files.*.complete"))
         ELSE IF ~acc.downloaded.some
         THEN Err(Bendy("MissingField", "files.*.downloaded"))
         ELSE IF ~acc.incomplete.some
         THEN Err(Bendy("MissingField", "files.*.incomplete"))
         ELSE Ok([complete |-> acc.complete.val,
                  incomplete |-> acc.incomplete.val,
                  downloaded |-> acc.downloaded.val])
    ELSE LET kv == Head(pairs) IN
         IF kv.key \notin {K_complete, K_downloaded, K_incomplete}
         THEN Err(Bendy("UnexpectedField", "files.<value>"))
         ELSE LET r == u32_decode_bencode_object(kv.v, "files.*") IN
              IF ~r.ok THEN r
              ELSE decode_files_value_rejecting(
                       Tail(pairs),
                       IF kv.key = K_complete
                       THEN [acc EXCEPT !.complete = Some(r.val)]
                       ELSE IF kv.key = K_downloaded
                       THEN [acc EXCEPT !.downloaded = Some(r.val)]
                       ELSE [acc EXCEPT !.incomplete = Some(r.val)])

(* the loop over one entry of files, and the three ok_or_else after it *)
RECURSIVE decode_files_value(_, _)
decode_files_value(pairs, acc) ==
    IF Len(pairs) = 0
    THEN IF ~acc.complete.some
         THEN Err(Bendy("MissingField", "files.*.complete"))
         ELSE IF ~acc.downloaded.some
         THEN Err(Bendy("MissingField", "files.*.downloaded"))
         ELSE IF ~acc.incomplete.some
         THEN Err(Bendy("MissingField", "files.*.incomplete"))
         ELSE Ok([complete |-> acc.complete.val,
                  incomplete |-> acc.incomplete.val,
                  downloaded |-> acc.downloaded.val])
    ELSE LET kv == Head(pairs) IN
         IF kv.key = K_complete
         THEN LET r == u32_decode_bencode_object(kv.v, "files.*.complete") IN
              IF ~r.ok THEN r
              ELSE decode_files_value(Tail(pairs),
                                      [acc EXCEPT !.complete = Some(r.val)])
         ELSE IF kv.key = K_downloaded
         THEN LET r == u32_decode_bencode_object(kv.v, "files.*.downloaded") IN
              IF ~r.ok THEN r
              ELSE decode_files_value(Tail(pairs),
                                      [acc EXCEPT !.downloaded = Some(r.val)])
         ELSE IF kv.key = K_incomplete
         THEN LET r == u32_decode_bencode_object(kv.v, "files.*.incomplete") IN
              IF ~r.ok THEN r
              ELSE decode_files_value(Tail(pairs),
                                      [acc EXCEPT !.incomplete = Some(r.val)])
         ELSE decode_files_value(Tail(pairs), acc)

(* HashMap::insert *)
insert(m, key, v) == [x \in DOMAIN m \cup {key} |-> IF x = key THEN v ELSE m[x]]

(* mutant: an entry that does not decode is left out of the map *)
RECURSIVE decode_files_skipping(_, _)
decode_files_skipping(pairs, filemap) ==
    IF Len(pairs) = 0 THEN Ok(filemap)
    ELSE LET kv == Head(pairs) IN
         IF Len(kv.key) # InfoHashLENGTH \/ kv.v.t # "dict"
         THEN decode_files_skipping(Tail(pairs), filemap)
         ELSE LET r == decode_files_value(
                           kv.v.pairs,
                           [complete |-> None, downloaded |-> None,
                            incomplete |-> None]) IN
              IF ~r.ok THEN decode_files_skipping(Tail(pairs), filemap)
              ELSE decode_files_skipping(Tail(pairs),
                                         insert(filemap, kv.key, r.val))

(* the loop over the files dictionary *)
RECURSIVE decode_files(_, _)
decode_files(pairs, filemap) ==
    IF Len(pairs) = 0 THEN Ok(filemap)
    ELSE LET kv == Head(pairs) IN
         IF Len(kv.key) # InfoHashLENGTH
         THEN Err(Bendy("MalformedContent", "files.<key>"))
         ELSE IF kv.v.t # "dict"
         THEN Err(Bendy("UnexpectedToken", "files.<value>"))
         ELSE LET r == decode_files_value(
                           kv.v.pairs,
                           [complete |-> None, downloaded |-> None,
                            incomplete |-> None]) IN
              IF ~r.ok THEN r
              ELSE decode_files(Tail(pairs), insert(filemap, kv.key, r.val))

(* mutant: a failure reason ends the decoding at once *)
RECURSIVE decode_top_failure_returns(_, _, _)
decode_top_failure_returns(pairs, files, failure_reason) ==
    IF Len(pairs) = 0
    THEN IF files.some
         THEN Ok([variant |-> "Success", scrape |-> files.val])
         ELSE Err(Bendy("MissingField", "files"))
    ELSE LET kv == Head(pairs) IN
         IF kv.key = K_files
         THEN IF kv.v.t # "dict" THEN Err(Bendy("UnexpectedToken", "files"))
              ELSE LET r == decode_files(kv.v.pairs, << >>) IN
                   IF ~r.ok THEN r
                   ELSE decode_top_failure_returns(Tail(pairs), Some(r.val),
                                                   failure_reason)
         ELSE IF kv.key = K_failure_reason
         THEN IF kv.v.t # "bytes"
              THEN Err(Bendy("UnexpectedToken", "failure reason"))
              ELSE Ok([variant |-> "Failure", msg |-> into_string_lossy(kv.v.b)])
         ELSE decode_top_failure_returns(Tail(pairs), files, failure_reason)

(* mutant: in the final match a files map goes before a failure reason *)
RECURSIVE decode_top_files_first(_, _, _)
decode_top_files_first(pairs, files, failure_reason) ==
    IF Len(pairs) = 0
    THEN IF files.some
         THEN Ok([variant |-> "Success", scrape |-> files.val])
         ELSE IF failure_reason.some
         THEN Ok([variant |-> "Failure", msg |-> failure_reason.val])
         ELSE Err(Bendy("MissingField", "files"))
    ELSE LET kv == Head(pairs) IN
         IF kv.key = K_files
         THEN IF kv.v.t # "dict" THEN Err(Bendy("UnexpectedToken", "files"))
              ELSE LET r == decode_files(kv.v.pairs, << >>) IN
                   IF ~r.ok THEN r
                   ELSE decode_top_files_first(Tail(pairs), Some(r.val),
                                               failure_reason)
         ELSE IF kv.key = K_failure_reason
         THEN IF kv.v.t # "bytes"
              THEN Err(Bendy("UnexpectedToken", "failure reason"))
              ELSE decode_top_files_first(Tail(pairs), files,
                                          Some(into_string_lossy(kv.v.b)))
         ELSE decode_top_files_first(Tail(pairs), files, failure_reason)

(* the loop over the top-level dictionary and the final match *)
RECURSIVE decode_top(_, _, _)
decode_top(pairs, files, failure_reason) ==
    IF Len(pairs) = 0
    THEN IF failure_reason.some
         THEN Ok([variant |-> "Failure", msg |-> failure_reason.val])
         ELSE IF files.some
         THEN Ok([variant |-> "Success", scrape |-> files.val])
         ELSE Err(Bendy("MissingField", "files"))
    ELSE LET kv == Head(pairs) IN
         IF kv.key = K_files
         THEN IF kv.v.t # "dict" THEN Err(Bendy("UnexpectedToken", "files"))
              ELSE LET r == decode_files(kv.v.pairs, << >>) IN
                   IF ~r.ok THEN r
                   ELSE decode_top(Tail(pairs), Some(r.val), failure_reason)
         ELSE IF kv.key = K_failure_reason
         THEN IF kv.v.t # "bytes"
              THEN Err(Bendy("UnexpectedToken", "failure reason"))
              ELSE decode_top(Tail(pairs), files,
                              Some(into_string_lossy(kv.v.b)))
         ELSE decode_top(Tail(pairs), files, failure_reason)

(* impl FromBencode for HttpScrapeResponse *)
decode_bencode_object(object) ==
    IF object.t # "dict" THEN Err(Bendy("UnexpectedToken", ""))
    ELSE decode_top(object.pairs, None, None)

(* what next_object() gives besides an object: Ok(None) at the end of the *)
(* input, and an error                                                     *)
BNone == [t |-> "none"]
BMalformed == [t |-> "malformed"]

(* mutant: what follows the first object is not looked at *)
decode_bencode_first_only(buf) ==
    IF buf.first.t = "malformed" THEN Err(Bendy("Syntax", ""))
    ELSE IF buf.first.t = "none" THEN Err(NoData)
    ELSE decode_bencode_object(buf.first)

(* util::decode_bencode.  A body is [first, second]: what the decoder's    *)
(* first and second next_object() give.                                    *)
decode_bencode(buf) ==
    IF buf.first.t = "malformed" THEN Err(Bendy("Syntax", ""))
    ELSE IF buf.first.t = "none" THEN Err(NoData)
    ELSE LET value == decode_bencode_object(buf.first) IN
         IF ~value.ok THEN value
         ELSE IF buf.second.t # "none" THEN Err(TrailingData)
         ELSE value

(* HttpScrapeResponse::result *)
HttpScrapeResponse_result(resp) ==
    IF resp.variant = "Success" THEN Ok(resp.scrape)
    ELSE Err(Failure(resp.msg))

(* HttpTracker::scrape from the body on: Result<ScrapeMap> *)
http_reply(buf) ==
    LET r == decode_bencode(buf) IN
    IF ~r.ok THEN Err(ParseResponse(r.err))
    ELSE HttpScrapeResponse_result(r.val)

-----------------------------------------------------------------------------
(* What the environment can supply *)

InfoHash(b) == [i \in 1..InfoHashLENGTH |-> b]
HashPool == {InfoHash(170), InfoHash(187)}
(* the lists of up to MaxHashes hashes, up to the naming of the first hash *)
HashLists ==
    {hs \in UNION {[1..m -> HashPool] : m \in 0..MaxHashes} :
        Len(hs) > 0 => hs[1] = InfoHash(170)}

(* <<Arguments::timeout, TRACKER_TIMEOUT>>: the short runs are explored   *)
(* with every hash list, the long ones with two distinct hashes            *)
ShortConfigs == {<<30, 30>>}
LongConfigs == {<<60, 60>>, <<100, 100>>, <<20000, 12000>>}
Inputs ==
    (HashLists \X ShortConfigs)
        \cup ({<<InfoHash(170), InfoHash(187)>>} \X LongConfigs)

(* the values random() can return *)
TransactionIds == {66051, 66052}

(* how long after the last event a datagram or an error can arrive *)
Delays == {0, 15}

ScrapeRecord(j) == put_u32(256 * j + 1) \o put_u32(j + 16) \o put_u32(j + 32)
RecordPayload(m) == Concat([j \in 1..m |-> ScrapeRecord(j)])
Payloads ==
    {RecordPayload(m) : m \in 0..(MaxHashes + 1)}
        \cup {RecordPayload(m) \o <<255>> : m \in 0..1}
        \cup {put_u64([hi |-> 1, lo |-> 7])}
ShortDatagrams ==
    {<< >>, <<0, 0, 0>>, <<0, 0, 0, 3>>, <<0, 0, 0, 0, 0, 1>>, <<0, 0, 0, 2, 0>>}
Datagrams ==
    {put_u32(a) \o put_u32(x) \o p : a \in {0, 2, 3}, x \in TransactionIds, p \in Payloads}
        \cup ShortDatagrams

LookupOutcomes == {"Ok", "Lookup", "NoResolve", "Bind", "Connect"}

Trackers == {"Udp", "Http"}
HttpSendOutcomes == {"Ok", "SendRequest", "HttpStatus"}

FilesEntry(c, d, i) ==
    BDict(<<Pair(K_complete, BInt(c)), Pair(K_downloaded, BInt(d)),
            Pair(K_incomplete, BInt(i))>>)
HttpObjects ==
    { BDict(<<Pair(K_files, BDict(<<Pair(InfoHash(170), FilesEntry(1, 2, 3))>>))>>),
      BDict(<<Pair(K_files, BDict(<<Pair(InfoHash(170), FilesEntry(1, 2, 3)),
                                    Pair(InfoHash(187), FilesEntry(4, 5, 6))>>))>>),
      BDict(<<Pair(K_failure_reason, BBytes(<<110, 111, 255>>)),
              Pair(K_files, BDict(<< >>))>>),
      BDict(<<Pair(K_files,
                   BDict(<<Pair(InfoHash(170),
                                BDict(<<Pair(K_complete, BInt(1)),
                                        Pair(K_incomplete, BInt(3))>>))>>))>>),
      BDict(<<Pair(K_files, BDict(<<Pair(<<1, 2, 3>>, FilesEntry(1, 2, 3))>>))>>),
      BDict(<<Pair(K_complete, BInt(1))>>),
      BInt(5),
      BList }
HttpBodies ==
    {[first |-> o, second |-> BNone] : o \in HttpObjects}
        \cup {[first |-> BDict(<<Pair(K_files, BDict(<< >>))>>), second |-> BInt(0)],
              [first |-> BNone, second |-> BNone],
              [first |-> BMalformed, second |-> BNone]}

-----------------------------------------------------------------------------
(* Timers.  An event can happen at instant t when no pending deadline is   *)
(* earlier; two events due at the same instant can happen in either order. *)

Waiting == pc \in {"lookup", "connect", "scrape", "http_send", "http_body"}

(* mutant: the SCRAPE exchange is not bounded by the connection's expiration *)
Pending_chat_unbounded ==
    {runDeadline, trkDeadline}
        \cup (IF pc \in {"connect", "scrape"} THEN {attDeadline} ELSE {})

Pending ==
    {runDeadline, trkDeadline}
        \cup (IF pc \in {"connect", "scrape"} THEN {attDeadline} ELSE {})
        \cup (IF pc = "scrape" THEN {conn.val.expiration} ELSE {})

Earliest == CHOOSE d \in Pending : \A e \in Pending : d <= e

CanHappenAt(t) == now <= t /\ t <= Earliest

-----------------------------------------------------------------------------
(* run, main.rs: the print loop over the requested hashes *)

RECURSIVE print_loop(_, _)
print_loop(hs, scrapemap) ==
    IF Len(hs) = 0 THEN << >>
    ELSE LET ih == Head(hs) IN
         IF ih \in DOMAIN scrapemap
         THEN <<[info_hash |-> ih, scrape |-> Some(scrapemap[ih])]>>
                  \o print_loop(Tail(hs),
                                [h \in DOMAIN scrapemap \ {ih} |-> scrapemap[h]])
         ELSE <<[info_hash |-> ih, scrape |-> None]>>
                  \o print_loop(Tail(hs), scrapemap)

(* run receives res from Tracker::scrape *)
ReturnToRun(res) ==
    /\ pc' = "done"
    /\ result' = Some(res)
    /\ output' = IF res.ok THEN print_loop(hashes, res.val) ELSE << >>

(* mutant: an elapsed timeout gives an empty map *)
unwrap_or_empty(r) == IF r.some THEN r.val ELSE Ok(<< >>)

(* Tracker::scrape: timeout(..).await.unwrap_or(Err(TrackerError::Timeout)), *)
(* r being none when the timeout elapsed                                     *)
unwrap_or_timeout(r) == IF r.some THEN r.val ELSE Err(Timeout)

(* the wrapped operation completes with res *)
Return(res) == ReturnToRun(unwrap_or_timeout(Some(res)))

-----------------------------------------------------------------------------
(* UdpTrackerSession::chat *)

(* mutant: every attempt waits 15 seconds *)
maxtime_constant(nn) == CHAT_TIMEOUT

maxtime(nn) == CHAT_TIMEOUT * Pow2(nn)

(* mutant: n is not clamped *)
next_n_unclamped(nn) == nn + 1

next_n(nn) == IF nn < MAX_SHIFT THEN nn + 1 ELSE nn

(* mutant: a retransmission is rebuilt with another transaction ID *)
chat_send_rebuilt(m, i) ==
    IF i = 0 THEN m
    ELSE SubSeq(m, 1, 12) \o put_u32(get_u32(Drop(m, 12)) + i) \o Drop(m, 16)

(* what the i-th transmission of an exchange puts on the wire *)
chat_send(m, i) == m

(* mutant: n is a field of the session and survives from one chat to the  *)
(* next                                                                     *)
BeginChat_keeps_n(kind, xid, m, send_ok, t) ==
    /\ transaction_id' = xid
    /\ draws' = draws + 1
    /\ msg' = m
    /\ n' = n
    /\ IF send_ok
       THEN /\ pc' = kind
            /\ attDeadline' = t + maxtime(n)
            /\ sends' = sends + 1
            /\ k' = 0
            /\ wire' = chat_send(m, 0)
            /\ exchFirst' = chat_send(m, 0)
            /\ UNCHANGED <<result, output>>
       ELSE /\ Return(Err(IoError("Send")))
            /\ UNCHANGED <<attDeadline, sends, k, wire, exchFirst>>

(* chat(m) starts at instant t: n = 0 and the first send *)
BeginChat(kind, xid, m, send_ok, t) ==
    /\ transaction_id' = xid
    /\ draws' = draws + 1
    /\ msg' = m
    /\ n' = 0
    /\ IF send_ok
       THEN /\ pc' = kind
            /\ attDeadline' = t + maxtime(0)
            /\ sends' = sends + 1
            /\ k' = 0
            /\ wire' = chat_send(m, 0)
            /\ exchFirst' = chat_send(m, 0)
            /\ UNCHANGED <<result, output>>
       ELSE /\ Return(Err(IoError("Send")))
            /\ UNCHANGED <<attDeadline, sends, k, wire, exchFirst>>

(* mutant: the request carries the protocol magic, not the connection ID *)
BeginScrape_magic(c, send_ok, t) ==
    \E xid \in TransactionIds :
        BeginChat("scrape", xid, UdpScrapeRequest(PROTOCOL_ID, xid, hashes),
                  send_ok, t)

(* the SCRAPE exchange of one loop iteration, with connection c *)
BeginScrape(c, send_ok, t) ==
    \E xid \in TransactionIds :
        BeginChat("scrape", xid, UdpScrapeRequest(c.id, xid, hashes), send_ok, t)

(* connect: the CONNECT exchange *)
BeginConnect(send_ok, t) ==
    \E xid \in TransactionIds :
        BeginChat("connect", xid, UdpConnectionRequest(xid), send_ok, t)

(* mutant: a connection is still reused at its expiration instant *)
reuse_connection_inclusive(c, t) == c.some /\ t <= c.val.expiration

(* get_connection: is the cached connection reused at instant t *)
reuse_connection(c, t) == c.some /\ t < c.val.expiration

(* mutant: the expired connection stays cached *)
reset_connection_kept(c) == c

(* reset_connection: the new value of the cached connection *)
reset_connection(c) == None

(* one iteration of the loop of scrape, up to its first suspension *)
LoopIteration(c, send_ok, t) ==
    IF reuse_connection(c, t)
    THEN BeginScrape(c.val, send_ok, t)
    ELSE BeginConnect(send_ok, t)

-----------------------------------------------------------------------------
(* The steps *)

Init ==
    /\ tracker \in Trackers
    /\ \E i \in Inputs :
           /\ tracker = "Http" => i[2] \in ShortConfigs
           /\ hashes = i[1] /\ timeout = i[2][1] /\ tracker_timeout = i[2][2]
    /\ pc = "init"
    /\ now = 0
    /\ runDeadline = 0
    /\ trkDeadline = 0
    /\ conn = None
    /\ transaction_id = 0
    /\ msg = << >>
    /\ n = 0
    /\ attDeadline = 0
    /\ result = None
    /\ output = << >>
    /\ sends = 0
    /\ k = 0
    /\ draws = 0
    /\ wire = << >>
    /\ exchFirst = << >>
    /\ received = None
    /\ event = "Init"
    /\ dropped = None
    /\ input = None
    /\ returned = None

(* mutant: run calls Tracker::scrape whatever the number of hashes *)
Run_unguarded(build_ok) ==
    /\ pc = "init"
    /\ event' = "Run"
    /\ UNCHANGED pure
    /\ UNCHANGED dropped
    /\ runDeadline' = now + timeout
    /\ trkDeadline' = now + tracker_timeout
    /\ IF tracker = "Udp"
       THEN pc' = "lookup" /\ UNCHANGED <<result, output>>
       ELSE IF build_ok
       THEN pc' = "http_send" /\ UNCHANGED <<result, output>>
       ELSE Return(Err(HttpError("BuildClient")))
    /\ UNCHANGED <<config, now, conn, transaction_id, msg, n, attDeadline,
                   sends, k, draws, wire, exchFirst>>
    /\ received' = None

(* run up to the first suspension of Tracker::scrape *)
Run(build_ok) ==
    /\ pc = "init"
    /\ event' = "Run"
    /\ UNCHANGED pure
    /\ UNCHANGED dropped
    /\ IF Len(hashes) = 0
       THEN /\ pc' = "done"
            /\ UNCHANGED <<runDeadline, trkDeadline, result, output>>
       ELSE /\ runDeadline' = now + timeout
            /\ trkDeadline' = now + tracker_timeout
            /\ IF tracker = "Udp"
               THEN pc' = "lookup" /\ UNCHANGED <<result, output>>
               ELSE IF build_ok
               THEN pc' = "http_send" /\ UNCHANGED <<result, output>>
               ELSE Return(Err(HttpError("BuildClient")))
    /\ UNCHANGED <<config, now, conn, transaction_id, msg, n, attDeadline,
                   sends, k, draws, wire, exchFirst>>
    /\ received' = None

(* HttpTracker::scrape: send().await completes, then error_for_status *)
HttpSendDone(outcome, delay) ==
    /\ pc = "http_send"
    /\ CanHappenAt(now + delay)
    /\ now' = now + delay
    /\ event' = "HttpSendDone"
    /\ UNCHANGED pure
    /\ UNCHANGED dropped
    /\ IF outcome = "Ok"
       THEN pc' = "http_body" /\ UNCHANGED <<result, output>>
       ELSE Return(Err(HttpError(outcome)))
    /\ received' = None
    /\ UNCHANGED <<config, runDeadline, trkDeadline, conn, transaction_id, msg, n,
                   attDeadline, sends, k, draws, wire, exchFirst>>

(* HttpTracker::scrape: bytes().await completes and the body is decoded *)
HttpBodyDone(read_ok, buf, delay) ==
    /\ pc = "http_body"
    /\ CanHappenAt(now + delay)
    /\ now' = now + delay
    /\ event' = "HttpBodyDone"
    /\ UNCHANGED pure
    /\ UNCHANGED dropped
    /\ IF read_ok
       THEN received' = Some(buf) /\ Return(http_reply(buf))
       ELSE received' = None /\ Return(Err(HttpError("ReadBody")))
    /\ UNCHANGED <<config, runDeadline, trkDeadline, conn, transaction_id, msg, n,
                   attDeadline, sends, k, draws, wire, exchFirst>>

(* ConnectedUdpSocket::connect completes; the session starts its loop *)
LookupDone(outcome, delay, send_ok) ==
    /\ pc = "lookup"
    /\ CanHappenAt(now + delay)
    /\ now' = now + delay
    /\ event' = "LookupDone"
    /\ UNCHANGED pure
    /\ UNCHANGED dropped
    /\ IF outcome # "Ok"
       THEN /\ Return(Err(IoError(outcome)))
            /\ UNCHANGED <<transaction_id, msg, n, attDeadline, sends, k, draws,
                           wire, exchFirst>>
       ELSE LoopIteration(None, send_ok, now')
    /\ received' = None
    /\ UNCHANGED <<config, runDeadline, trkDeadline, conn>>

(* mutant: chat gives up with an error once n has reached its ceiling *)
RecvTimeout_gives_up(send_ok) ==
    /\ pc \in {"connect", "scrape"}
    /\ CanHappenAt(attDeadline)
    /\ sends < MaxSends
    /\ now' = attDeadline
    /\ event' = "RecvTimeout"
    /\ UNCHANGED pure
    /\ UNCHANGED dropped
    /\ n' = next_n(n)
    /\ IF send_ok /\ n < MAX_SHIFT
       THEN /\ attDeadline' = now' + maxtime(n')
            /\ sends' = sends + 1
            /\ k' = k + 1
            /\ wire' = chat_send(msg, k + 1)
            /\ UNCHANGED <<pc, result, output>>
       ELSE /\ Return(Err(IF send_ok THEN Timeout ELSE IoError("Send")))
            /\ UNCHANGED <<attDeadline, sends, k, wire>>
    /\ received' = None
    /\ UNCHANGED <<config, runDeadline, trkDeadline, conn, transaction_id, msg,
                   draws, exchFirst>>

(* chat: the receive timeout fires, n is stepped and the message is resent *)
RecvTimeout(send_ok) ==
    /\ pc \in {"connect", "scrape"}
    /\ CanHappenAt(attDeadline)
    /\ sends < MaxSends
    /\ now' = attDeadline
    /\ event' = "RecvTimeout"
    /\ UNCHANGED pure
    /\ UNCHANGED dropped
    /\ n' = next_n(n)
    /\ IF send_ok
       THEN /\ attDeadline' = now' + maxtime(n')
            /\ sends' = sends + 1
            /\ k' = k + 1
            /\ wire' = chat_send(msg, k + 1)
            /\ UNCHANGED <<pc, result, output>>
       ELSE /\ Return(Err(IoError("Send")))
            /\ UNCHANGED <<attDeadline, sends, k, wire>>
    /\ UNCHANGED <<config, runDeadline, trkDeadline, conn, transaction_id, msg,
                   draws, exchFirst>>
    /\ received' = None

(* chat returns a datagram to connect; on success get_connection caches the *)
(* connection and scrape goes on to the SCRAPE exchange                     *)
ConnectReply(d, delay, send_ok) ==
    LET t == now + delay
        r == connect_reply(d, transaction_id, t)
    IN /\ pc = "connect"
       /\ CanHappenAt(t)
       /\ r.ok => sends < MaxSends
       /\ now' = t
       /\ event' = "ConnectReply"
       /\ UNCHANGED pure
       /\ UNCHANGED dropped
       /\ received' = Some(d)
       /\ IF r.ok
          THEN /\ conn' = Some(r.val)
               /\ BeginScrape(r.val, send_ok, t)
          ELSE /\ Return(r)
               /\ UNCHANGED <<conn, transaction_id, msg, n, attDeadline, sends, k,
                              draws, wire, exchFirst>>
       /\ UNCHANGED <<config, runDeadline, trkDeadline>>

(* mutant: a reply with another transaction ID is discarded and the       *)
(* exchange keeps waiting                                                   *)
ScrapeReply_discards(d, delay) ==
    LET t == now + delay
        r == scrape_reply(d, transaction_id, hashes) IN
    /\ pc = "scrape"
    /\ CanHappenAt(t)
    /\ now' = t
    /\ event' = "ScrapeReply"
    /\ UNCHANGED pure
    /\ UNCHANGED dropped
    /\ received' = Some(d)
    /\ IF ~r.ok /\ r.err.kind = "XactionMismatch"
       THEN UNCHANGED <<pc, result, output>>
       ELSE Return(r)
    /\ UNCHANGED <<config, runDeadline, trkDeadline, conn, transaction_id, msg, n,
                   attDeadline, sends, k, draws, wire, exchFirst>>

(* mutant: a rejected SCRAPE reply makes the session forget its connection *)
ScrapeReply_forgets(d, delay) ==
    LET t == now + delay IN
    /\ pc = "scrape"
    /\ CanHappenAt(t)
    /\ now' = t
    /\ event' = "ScrapeReply"
    /\ UNCHANGED pure
    /\ UNCHANGED dropped
    /\ received' = Some(d)
    /\ Return(scrape_reply(d, transaction_id, hashes))
    /\ conn' = IF scrape_reply(d, transaction_id, hashes).ok
               THEN conn ELSE reset_connection(conn)
    /\ UNCHANGED <<config, runDeadline, trkDeadline, transaction_id, msg, n,
                   attDeadline, sends, k, draws, wire, exchFirst>>

(* chat returns a datagram to scrape before the connection expires *)
ScrapeReply(d, delay) ==
    LET t == now + delay IN
    /\ pc = "scrape"
    /\ CanHappenAt(t)
    /\ now' = t
    /\ event' = "ScrapeReply"
    /\ UNCHANGED pure
    /\ UNCHANGED dropped
    /\ received' = Some(d)
    /\ Return(scrape_reply(d, transaction_id, hashes))
    /\ UNCHANGED <<config, runDeadline, trkDeadline, conn, transaction_id, msg, n,
                   attDeadline, sends, k, draws, wire, exchFirst>>

(* mutant: a receive error is answered by another transmission *)
RecvError_resends(delay) ==
    LET t == now + delay IN
    /\ pc \in {"connect", "scrape"}
    /\ CanHappenAt(t)
    /\ sends < MaxSends
    /\ now' = t
    /\ event' = "RecvError"
    /\ UNCHANGED pure
    /\ UNCHANGED dropped
    /\ attDeadline' = t + maxtime(n)
    /\ sends' = sends + 1
    /\ k' = k + 1
    /\ wire' = chat_send(msg, k + 1)
    /\ received' = None
    /\ UNCHANGED <<config, runDeadline, trkDeadline, conn, transaction_id, msg, n,
                   pc, result, output, draws, exchFirst>>

(* socket.recv() fails *)
RecvError(delay) ==
    LET t == now + delay IN
    /\ pc \in {"connect", "scrape"}
    /\ CanHappenAt(t)
    /\ now' = t
    /\ event' = "RecvError"
    /\ UNCHANGED pure
    /\ UNCHANGED dropped
    /\ Return(Err(IoError("Recv")))
    /\ received' = None
    /\ UNCHANGED <<config, runDeadline, trkDeadline, conn, transaction_id, msg, n,
                   attDeadline, sends, k, draws, wire, exchFirst>>

(* timeout_at(conn.expiration, chat) elapses: reset_connection and continue *)
ConnExpire(send_ok) ==
    /\ pc = "scrape"
    /\ CanHappenAt(conn.val.expiration)
    /\ sends < MaxSends
    /\ now' = conn.val.expiration
    /\ event' = "ConnExpire"
    /\ UNCHANGED pure
    /\ dropped' = Some(transaction_id)
    /\ conn' = reset_connection(conn)
    /\ LoopIteration(conn', send_ok, now')
    /\ received' = None
    /\ UNCHANGED <<config, runDeadline, trkDeadline>>

(* the timeout of Tracker::scrape elapses *)
TrackerTimeout ==
    /\ Waiting
    /\ CanHappenAt(trkDeadline)
    /\ now' = trkDeadline
    /\ event' = "TrackerTimeout"
    /\ UNCHANGED pure
    /\ UNCHANGED dropped
    /\ ReturnToRun(unwrap_or_timeout(None))
    /\ received' = None
    /\ UNCHANGED <<config, runDeadline, trkDeadline, conn, transaction_id, msg, n,
                   attDeadline, sends, k, draws, wire, exchFirst>>

(* the timeout of run elapses: run bails, Tracker::scrape is dropped *)
RunTimeout ==
    /\ Waiting
    /\ CanHappenAt(runDeadline)
    /\ now' = runDeadline
    /\ event' = "RunTimeout"
    /\ UNCHANGED pure
    /\ UNCHANGED dropped
    /\ pc' = "done"
    /\ UNCHANGED <<config, runDeadline, trkDeadline, conn, transaction_id, msg, n,
                   attDeadline, result, output, sends, k, draws, wire, exchFirst>>
    /\ received' = None

Next ==
    \/ \E build_ok \in BOOLEAN : Run(build_ok)
    \/ \E o \in HttpSendOutcomes, delay \in Delays : HttpSendDone(o, delay)
    \/ \E read_ok \in BOOLEAN, buf \in HttpBodies, delay \in Delays :
           HttpBodyDone(read_ok, buf, delay)
    \/ \E o \in LookupOutcomes, delay \in Delays, send_ok \in BOOLEAN :
           LookupDone(o, delay, send_ok)
    \/ \E send_ok \in BOOLEAN : RecvTimeout(send_ok)
    \/ \E d \in Datagrams, delay \in Delays, send_ok \in BOOLEAN :
           ConnectReply(d, delay, send_ok)
    \/ \E d \in Datagrams, delay \in Delays : ScrapeReply(d, delay)
    \/ \E delay \in Delays : RecvError(delay)
    \/ \E send_ok \in BOOLEAN : ConnExpire(send_ok)
    \/ TrackerTimeout
    \/ RunTimeout

Spec == Init /\ [][Next]_vars

-----------------------------------------------------------------------------
(* Reading the fields of a datagram, for the properties below *)

ReplyAction(d) == get_u32(d)
ReplyXid(d) == get_u32(Drop(d, 4))
ReplyConnId(d) == get_u64(Drop(d, 8))
WholeRecords(d) == Len(d) >= 8 /\ (Len(d) - 8) % 12 = 0
ReplyRecords(d) == (Len(d) - 8) \div 12
ReplyRecord(d, i) ==
    LET b == Drop(d, 8 + 12 * (i - 1)) IN
    [complete |-> get_u32(b),
     incomplete |-> get_u32(Drop(b, 8)),
     downloaded |-> get_u32(Drop(b, 4))]

ReqConnId(m) == get_u64(m)
ReqAction(m) == get_u32(Drop(m, 8))
ReqXid(m) == get_u32(Drop(m, 12))
IsConnectReq(m) ==
    Len(m) = 16 /\ get_u64(m) = PROTOCOL_ID /\ ReqAction(m) = CONNECT_ACTION
IsScrapeReq(m) ==
    /\ Len(m) = 16 + InfoHashLENGTH * Len(hashes)
    /\ ReqAction(m) = SCRAPE_ACTION
    /\ Drop(m, 16) = Concat(hashes)

InExchange == pc \in {"connect", "scrape"}

-----------------------------------------------------------------------------
(* C1 *)

(* a SCRAPE response with action 2, the transaction ID sent and whole     *)
(* records, whose record count differs from the number of hashes          *)
C1_Case ==
    /\ event = "ScrapeReply"
    /\ received.some
    /\ WholeRecords(received.val)
    /\ ReplyAction(received.val) = SCRAPE_ACTION
    /\ ReplyXid(received.val) = ReqXid(wire)
    /\ ReplyRecords(received.val) # Len(hashes)

(* C1 as claimed: a SCRAPE response whose record count differs from the   *)
(* number of requested hashes makes the call fail with PacketLen.          *)
C1_MismatchFails == C1_Case => result = Some(Err(PacketLen))

(* C1 amended: such a response makes the call succeed with the map that   *)
(* pairs the first min(N, M) hashes with the first min(N, M) records; the  *)
(* surplus hashes or records are dropped without an error.                 *)
C1_MismatchZipped ==
    C1_Case =>
        /\ result.some
        /\ result.val.ok
        /\ LET m == Min2(Len(hashes), ReplyRecords(received.val))
               map == result.val.val
           IN /\ DOMAIN map = {hashes[i] : i \in 1..m}
              /\ \A i \in 1..m :
                     (\A j \in (i + 1)..m : hashes[j] # hashes[i])
                         => map[hashes[i]] = ReplyRecord(received.val, i)

C1_Witness ==
    /\ C1_Case
    /\ ReplyRecords(received.val) > Len(hashes)
    /\ result.some
    /\ result.val.ok
    /\ DOMAIN result.val.val = {hashes[i] : i \in 1..Len(hashes)}

-----------------------------------------------------------------------------
(* C2 *)

(* the step hands chat's caller a datagram of at least 8 bytes whose      *)
(* transaction ID differs from the one of the outstanding request          *)
C2_Case ==
    /\ InExchange
    /\ received'.some
    /\ Len(received'.val) >= 8
    /\ ReplyXid(received'.val) # ReqXid(wire)

(* is d, but for its transaction ID, a response the exchange accepts *)
WellFormedFor(kind, d) ==
    IF kind = "connect"
    THEN ReplyAction(d) = CONNECT_ACTION /\ Len(d) >= 16
    ELSE ReplyAction(d) = SCRAPE_ACTION /\ WholeRecords(d)

(* C2 as claimed: every response whose transaction ID differs from the    *)
(* one sent makes the call fail with XactionMismatch.                      *)
C2_AlwaysXactionMismatch ==
    [][C2_Case =>
         /\ pc' = "done"
         /\ result' = Some(Err(XactionMismatch(ReqXid(wire),
                                               ReplyXid(received'.val))))]_vars

(* C2 amended: a response whose transaction ID differs from the one sent  *)
(* never yields a result map or a cached connection: the call fails at     *)
(* once, with XactionMismatch when the response is otherwise one the       *)
(* exchange accepts, and with Failure, BadAction or PacketLen otherwise.   *)
C2_MismatchNeverAccepted ==
    [][C2_Case =>
         /\ pc' = "done"
         /\ result'.some
         /\ ~result'.val.ok
         /\ conn' = conn
         /\ sends' = sends
         /\ LET d == received'.val
                e == result'.val.err
            IN IF WellFormedFor(pc, d)
               THEN e = XactionMismatch(ReqXid(wire), ReplyXid(d))
               ELSE e.kind \in {"Failure", "BadAction", "PacketLen"}]_vars

C2_Witness ==
    /\ event = "ScrapeReply"
    /\ received.some
    /\ Len(received.val) >= 8
    /\ ReplyXid(received.val) # ReqXid(wire)
    /\ ReplyRecords(received.val) = Len(hashes)
    /\ result.some
    /\ ~result.val.ok
    /\ result.val.err.kind = "XactionMismatch"

-----------------------------------------------------------------------------
(* C3 *)

(* the step transmits a datagram *)
Transmits == sends' = sends + 1

(* C3: the first datagram of a call is a CONNECT request; a SCRAPE        *)
(* request is first sent in the step that accepts a CONNECT response       *)
(* (action 0, the transaction ID sent) and carries that response's         *)
(* connection ID, which is the cached one; its retransmissions carry the   *)
(* same connection ID; and the datagram outstanding is always the request  *)
(* of the one exchange that is running.                                    *)
C3_ConnectBeforeScrape ==
    [][Transmits =>
         /\ sends = 0 => IsConnectReq(wire')
         /\ \/ pc' = "connect" /\ IsConnectReq(wire')
            \/ pc' = "scrape" /\ IsScrapeReq(wire')
         /\ (IsScrapeReq(wire') /\ k' = 0) =>
                /\ pc = "connect"
                /\ received'.some
                /\ Len(received'.val) >= 16
                /\ ReplyAction(received'.val) = CONNECT_ACTION
                /\ ReplyXid(received'.val) = ReqXid(wire)
                /\ ReqConnId(wire') = ReplyConnId(received'.val)
                /\ conn' = Some([id |-> ReqConnId(wire'),
                                 expiration |-> now' + CONNECTION_LIFETIME])
         /\ (IsScrapeReq(wire') /\ k' > 0) =>
                /\ pc = "scrape"
                /\ conn' = conn
                /\ ReqConnId(wire') = conn.val.id
                /\ ReqConnId(wire') = ReqConnId(wire)]_vars

(* a SCRAPE request is retransmitted on the second connection of a call *)
C3_Witness ==
    /\ pc = "scrape"
    /\ draws = 4
    /\ k = 1
    /\ IsScrapeReq(wire)
    /\ ReqConnId(wire) = conn.val.id

-----------------------------------------------------------------------------
(* C4 *)

(* C4: when the connection's expiration instant is reached in the SCRAPE  *)
(* exchange, the cached connection becomes none and a CONNECT exchange is  *)
(* started at that instant; the only error the step can return is the I/O  *)
(* error of sending that CONNECT request.  Until then the SCRAPE exchange  *)
(* never waits past the expiration instant.                                *)
C4_ExpiryReconnects ==
    [][/\ pc' = "scrape" => now' <= conn'.val.expiration
       /\ (pc = "scrape" /\ event' = "ConnExpire") =>
              /\ now' = conn.val.expiration
              /\ conn' = None
              /\ received' = None
              /\ draws' = draws + 1
              /\ \/ /\ pc' = "connect"
                    /\ k' = 0
                    /\ Transmits
                    /\ IsConnectReq(wire')
                    /\ result' = None
                 \/ /\ pc' = "done"
                    /\ sends' = sends
                    /\ result' = Some(Err(IoError("Send")))]_vars

(* a CONNECT request is outstanding right after a connection expired *)
C4_Witness ==
    /\ event = "ConnExpire"
    /\ pc = "connect"
    /\ conn = None
    /\ IsConnectReq(wire)
    /\ result = None

-----------------------------------------------------------------------------
(* C5 *)

(* C5: while an exchange waits, the receive timeout of its k-th           *)
(* transmission is 15 * 2^min(k, 8) seconds, n is min(k, 8), never above   *)
(* 8, and the timeout is never above 3840 seconds.                         *)
C5_Backoff ==
    InExchange =>
        /\ n <= 8
        /\ n = Min2(k, 8)
        /\ attDeadline - now = 15 * Pow2(Min2(k, 8))
        /\ attDeadline - now <= 3840

(* the 11th transmission of an exchange waits 3840 seconds *)
C5_Witness == InExchange /\ k = 10 /\ n = 8 /\ attDeadline - now = 3840

-----------------------------------------------------------------------------
(* C6 *)

(* C6: a receive timeout never ends an exchange: whatever n is, the step  *)
(* retransmits and goes on waiting in the same exchange, unless the send   *)
(* fails; and an exchange ends only with a datagram received, a send or    *)
(* receive I/O error, or an outer deadline (connection expiry, the         *)
(* overall timeouts).                                                      *)
C6_NeverGivesUp ==
    [][/\ (InExchange /\ event' = "RecvTimeout") =>
              \/ /\ pc' = pc
                 /\ k' = k + 1
                 /\ Transmits
                 /\ now' = attDeadline
                 /\ attDeadline' > now'
                 /\ result' = result
              \/ /\ pc' = "done"
                 /\ result' = Some(Err(IoError("Send")))
       /\ (InExchange /\ (pc' # pc \/ k' = 0)) =>
              \/ received'.some
              \/ pc' = "done" /\ result' \in {Some(Err(IoError("Send"))),
                                              Some(Err(IoError("Recv")))}
              \/ pc = "scrape" /\ now' = conn.val.expiration
              \/ now' = trkDeadline /\ result' = Some(Err(Timeout))
              \/ now' = runDeadline /\ result' = None /\ pc' = "done"]_vars

(* an exchange still waits after more than nine transmissions *)
C6_Witness == InExchange /\ k = 10 /\ event = "RecvTimeout" /\ result = None

-----------------------------------------------------------------------------
(* C7 *)

(* C7: the datagram on the wire is, at every transmission of an exchange, *)
(* the same bytes as the first transmission of that exchange.              *)
C7_SameBytes ==
    [][Transmits =>
         /\ wire' = exchFirst'
         /\ k' > 0 => wire' = wire /\ exchFirst' = exchFirst]_vars

(* the third transmission of a SCRAPE request *)
C7_Witness == pc = "scrape" /\ k = 2 /\ wire = exchFirst /\ IsScrapeReq(wire)

-----------------------------------------------------------------------------
(* C8 *)

(* C8 as claimed: every retransmission draws a fresh transaction ID. *)
C8_FreshPerRetry ==
    [][(Transmits /\ k' = k + 1) => draws' = draws + 1]_vars

(* C8 amended: a transaction ID is scoped to one exchange: it is drawn    *)
(* once when a CONNECT or a SCRAPE exchange starts, and every              *)
(* retransmission of the exchange carries that same transaction ID.        *)
C8_FreshPerExchange ==
    [][Transmits =>
         /\ ReqXid(wire') = transaction_id'
         /\ transaction_id' \in TransactionIds
         /\ k' = 0 => draws' = draws + 1
         /\ k' > 0 => /\ draws' = draws
                      /\ transaction_id' = transaction_id
                      /\ ReqXid(wire') = ReqXid(wire)]_vars

(* a CONNECT request is retransmitted with the transaction ID drawn once *)
C8_Witness ==
    /\ pc = "connect"
    /\ k = 2
    /\ draws = 1
    /\ ReqXid(wire) = transaction_id

-----------------------------------------------------------------------------
(* C9 *)

(* the kinds of the errors of the transport itself *)
TransportErrors ==
    {"Lookup", "NoResolve", "Bind", "Connect", "Send", "Recv",
     "BuildClient", "SendRequest", "HttpStatus", "ReadBody"}

(* C9: Tracker::scrape never waits past its overall deadline; when the    *)
(* deadline is reached with the HTTP or UDP operation still waiting, the   *)
(* call returns Timeout at that instant; and when the operation completes  *)
(* first, the call returns at that instant what the operation produced     *)
(* (the decoded reply or the transport error), which is never Timeout.     *)
C9_DeadlineOrUnchanged ==
    [][/\ Waiting' => now' <= trkDeadline'
       /\ (Waiting /\ event' = "TrackerTimeout") =>
              /\ now' = trkDeadline
              /\ pc' = "done"
              /\ result' = Some(Err(Timeout))
       /\ (pc # "done" /\ pc' = "done" /\ Len(hashes) > 0
              /\ event' \notin {"TrackerTimeout", "RunTimeout"}) =>
              /\ now' <= trkDeadline'
              /\ result' # Some(Err(Timeout))
              /\ CASE event' = "ScrapeReply" ->
                       result' = Some(scrape_reply(received'.val, transaction_id,
                                                   hashes))
                  [] event' = "ConnectReply"
                       /\ ~connect_reply(received'.val, transaction_id, now').ok ->
                       result' = Some(connect_reply(received'.val, transaction_id,
                                                    now'))
                  [] event' = "HttpBodyDone" /\ received'.some ->
                       result' = Some(http_reply(received'.val))
                  [] OTHER ->
                       /\ result'.some
                       /\ ~result'.val.ok
                       /\ result'.val.err.kind \in TransportErrors]_vars

(* the overall deadline cuts off the CONNECT exchange of a reconnection *)
C9_Witness ==
    /\ event = "TrackerTimeout"
    /\ result = Some(Err(Timeout))
    /\ now = trkDeadline
    /\ draws = 3
    /\ conn = None

(* the overall deadline cuts off the HTTP operation *)
C9_HttpTimedOut ==
    tracker = "Http" /\ event = "TrackerTimeout" /\ result = Some(Err(Timeout))

(* an HTTP scrape returns the decoded map before the deadline *)
C9_HttpMap ==
    /\ tracker = "Http"
    /\ event = "HttpBodyDone"
    /\ result = Some(Ok(ZipCollect(<<InfoHash(170)>>, <<[complete |-> 1, incomplete |-> 3, downloaded |-> 2]>>)))

-----------------------------------------------------------------------------
(* C10 *)

(* a datagram with an action field is handed to connect *)
C10_Case == pc = "connect" /\ received'.some /\ Len(received'.val) >= 4

(* C10 as claimed: every CONNECT response with an action other than 0     *)
(* gives BadAction, and every one with action 0 and another transaction ID *)
(* gives XactionMismatch.                                                  *)
C10_AnyOtherAction ==
    [][C10_Case =>
         LET d == received'.val IN
         /\ ReplyAction(d) # CONNECT_ACTION =>
                result' = Some(Err(BadAction(CONNECT_ACTION, ReplyAction(d))))
         /\ (ReplyAction(d) = CONNECT_ACTION /\ Len(d) >= 8
                /\ ReplyXid(d) # transaction_id) =>
                result' = Some(Err(XactionMismatch(transaction_id, ReplyXid(d))))
      ]_vars

(* C10 amended: a CONNECT response whose action is neither 0 nor the      *)
(* error action 3 gives BadAction, and a complete one (16 bytes or more)   *)
(* with action 0 and a transaction ID other than the one sent gives        *)
(* XactionMismatch; in both cases the call ends in that step with no       *)
(* connection cached and no datagram sent, and nothing happens after a     *)
(* call has ended.                                                         *)
C10_ConnectRejected ==
    [][/\ pc # "done"
       /\ C10_Case =>
            LET d == received'.val
                bad == ReplyAction(d) \notin {CONNECT_ACTION, ERROR_ACTION}
                mismatch == /\ ReplyAction(d) = CONNECT_ACTION
                            /\ Len(d) >= 16
                            /\ ReplyXid(d) # transaction_id
            IN /\ bad => result' =
                     Some(Err(BadAction(CONNECT_ACTION, ReplyAction(d))))
               /\ mismatch => result' =
                     Some(Err(XactionMismatch(transaction_id, ReplyXid(d))))
               /\ (bad \/ mismatch) =>
                     /\ pc' = "done"
                     /\ conn = None /\ conn' = None
                     /\ sends' = sends
                     /\ draws' = draws
                     /\ wire' = wire]_vars

(* a reconnection ends the call with XactionMismatch *)
C10_Witness ==
    /\ event = "ConnectReply"
    /\ pc = "done"
    /\ draws = 3
    /\ conn = None
    /\ received.some /\ Len(received.val) >= 16
    /\ ReplyAction(received.val) = CONNECT_ACTION
    /\ result = Some(Err(XactionMismatch(transaction_id, ReplyXid(received.val))))

-----------------------------------------------------------------------------
(* C11 *)

(* C11: a reply of at least 8 bytes whose action is the error action 3    *)
(* ends the call with Failure(message), the message being the lossy UTF-8  *)
(* reading of the bytes after the 8th, in the CONNECT and in the SCRAPE    *)
(* exchange and whether or not its transaction ID is the one sent; the     *)
(* step sends nothing and caches nothing, and no step follows it.          *)
C11_ErrorActionFails ==
    [][/\ pc # "done"
       /\ (InExchange /\ received'.some /\ Len(received'.val) >= 8
              /\ ReplyAction(received'.val) = ERROR_ACTION) =>
            /\ result' = Some(Err(Failure(
                             into_string_lossy(Drop(received'.val, 8)))))
            /\ pc' = "done"
            /\ sends' = sends
            /\ draws' = draws
            /\ conn' = conn]_vars

(* a SCRAPE reply with the error action, another transaction ID and a     *)
(* message that is not valid UTF-8                                         *)
C11_Witness ==
    /\ event = "ScrapeReply"
    /\ pc = "done"
    /\ received.some /\ Len(received.val) = 9
    /\ ReplyAction(received.val) = ERROR_ACTION
    /\ ReplyXid(received.val) # transaction_id
    /\ result = Some(Err(Failure(<<65533>>)))

-----------------------------------------------------------------------------
(* C12 *)

(* C12: the steps of the UDP session that transmit are its first request, *)
(* the SCRAPE request that follows an accepted CONNECT reply, and the two  *)
(* retries: a receive timeout of chat and the expiry of the connection     *)
(* during the SCRAPE exchange.  Every step in which the session meets an   *)
(* error (send or receive I/O error, truncated packet, BadAction,          *)
(* XactionMismatch, Failure) returns that error and transmits nothing, and *)
(* no step follows the end of the call.                                    *)
C12_OnlyTwoRetries ==
    [][/\ pc # "done"
       /\ Transmits =>
            \/ event' \in {"RecvTimeout", "ConnExpire"}
            \/ event' = "LookupDone" /\ sends = 0
            \/ /\ event' = "ConnectReply"
               /\ connect_reply(received'.val, transaction_id, now').ok
       /\ (pc = "connect" /\ received'.some
              /\ ~connect_reply(received'.val, transaction_id, now').ok) =>
            /\ result' = Some(connect_reply(received'.val, transaction_id, now'))
            /\ pc' = "done" /\ sends' = sends
       /\ (pc = "scrape" /\ received'.some) =>
            /\ result' = Some(scrape_reply(received'.val, transaction_id, hashes))
            /\ pc' = "done" /\ sends' = sends
       /\ (tracker = "Udp" /\ result'.some) =>
            /\ pc' = "done"
            /\ sends' = sends
       /\ (InExchange /\ event' = "RecvError") =>
            result' = Some(Err(IoError("Recv")))]_vars

(* a receive error after a retransmission ends the call *)
C12_Witness ==
    /\ event = "RecvError"
    /\ pc = "done"
    /\ k = 1
    /\ sends = 3
    /\ result = Some(Err(IoError("Recv")))

-----------------------------------------------------------------------------
(* The binary cursor on its own: a TryBytes over an arbitrary buffer, and  *)
(* the extractions in any order.                                           *)

(* the variables of the program proper *)
main == <<tracker, hashes, timeout, tracker_timeout, now, runDeadline,
          trkDeadline, conn, transaction_id, msg, n, attDeadline, result, output,
          sends, k, draws, wire, exchFirst, received, dropped>>

(* no scrape is running *)
MainIdle ==
    /\ tracker = "Udp" /\ hashes = << >> /\ timeout = 0 /\ tracker_timeout = 0
    /\ now = 0 /\ runDeadline = 0 /\ trkDeadline = 0 /\ conn = None
    /\ transaction_id = 0 /\ msg = << >> /\ n = 0 /\ attDeadline = 0
    /\ result = None /\ output = << >> /\ sends = 0 /\ k = 0 /\ draws = 0
    /\ wire = << >> /\ exchFirst = << >> /\ received = None
    /\ dropped = None

(* the i-th byte of the buffer of seed s; the first byte of every u32 is   *)
(* below 128                                                               *)
BufByte(i, s) ==
    IF i % 4 = 1 THEN (s + i) % 128 ELSE (s * i + 7 * i + s) % 256
BufSeeds == {0, 85, 201}
Buffers == {[i \in 1..len |-> BufByte(i, s)] : len \in 0..MaxBufLen, s \in BufSeeds}

CursorInit ==
    /\ MainIdle
    /\ pc = "cursor"
    /\ event = "Init"
    /\ input \in Buffers
    /\ returned = None

(* TryBytes::try_get::<u32> *)
TryGetU32 ==
    LET r == try_from_buf_u32(input) IN
    /\ pc = "cursor"
    /\ event' = "try_get_u32"
    /\ returned' = r
    /\ input' = IF r.ok THEN r.rest ELSE input
    /\ UNCHANGED <<main, pc>>

(* TryBytes::try_get::<u64> *)
TryGetU64 ==
    LET r == try_from_buf_u64(input) IN
    /\ pc = "cursor"
    /\ event' = "try_get_u64"
    /\ returned' = r
    /\ input' = IF r.ok THEN r.rest ELSE input
    /\ UNCHANGED <<main, pc>>

(* TryBytes::try_get::<Scrape> *)
TryGetScrape ==
    LET r == try_from_buf_Scrape(input) IN
    /\ pc = "cursor"
    /\ event' = "try_get_Scrape"
    /\ returned' = r
    /\ input' = IF r.ok THEN r.rest ELSE cursor_after_failed_Scrape(input)
    /\ UNCHANGED <<main, pc>>

(* TryBytes::try_get_all::<Scrape>, which consumes the cursor *)
TryGetAll ==
    /\ pc = "cursor"
    /\ event' = "try_get_all"
    /\ returned' = try_get_all(input)
    /\ pc' = "consumed"
    /\ UNCHANGED <<main, input>>

CursorNext == TryGetU32 \/ TryGetU64 \/ TryGetScrape \/ TryGetAll

SpecCursor == CursorInit /\ [][CursorNext]_vars

-----------------------------------------------------------------------------
(* C13 *)

(* the big-endian number that the bytes b spell *)
RECURSIVE BigEndian(_)
BigEndian(b) ==
    IF Len(b) = 0 THEN 0
    ELSE 256 * BigEndian(SubSeq(b, 1, Len(b) - 1)) + b[Len(b)]

(* the fields of the record at bytes 12 i - 11 .. 12 i of b, in wire order *)
RecordAt(b, i) ==
    [complete |-> BigEndian(SubSeq(b, 12 * i - 11, 12 * i - 8)),
     downloaded |-> BigEndian(SubSeq(b, 12 * i - 7, 12 * i - 4)),
     incomplete |-> BigEndian(SubSeq(b, 12 * i - 3, 12 * i))]

(* C13: extracting a u32, a u64 or a Scrape fails with Short when fewer   *)
(* than 4, 8 or 12 bytes remain, and otherwise returns the big-endian      *)
(* value and advances the cursor by exactly that width; try_get_all        *)
(* returns the len/12 records when the remaining length is a multiple of   *)
(* 12 and fails with Short, returning no list, otherwise.                  *)
C13_CursorExtraction ==
    [][/\ event' = "try_get_u32" =>
            IF Len(input) < 4 THEN returned' = Short
            ELSE /\ returned'.ok
                 /\ returned'.val = BigEndian(SubSeq(input, 1, 4))
                 /\ input' = Drop(input, 4)
       /\ event' = "try_get_u64" =>
            IF Len(input) < 8 THEN returned' = Short
            ELSE /\ returned'.ok
                 /\ returned'.val = [hi |-> BigEndian(SubSeq(input, 1, 4)),
                                     lo |-> BigEndian(SubSeq(input, 5, 8))]
                 /\ input' = Drop(input, 8)
       /\ event' = "try_get_Scrape" =>
            IF Len(input) < 12 THEN returned' = Short
            ELSE /\ returned'.ok
                 /\ returned'.val = RecordAt(input, 1)
                 /\ input' = Drop(input, 12)
       /\ event' = "try_get_all" =>
            IF Len(input) % 12 # 0 THEN returned' = Short
            ELSE /\ returned'.ok
                 /\ Len(returned'.val) = Len(input) \div 12
                 /\ \A i \in 1..Len(returned'.val) :
                        returned'.val[i] = RecordAt(input, i)]_vars

(* try_get_all fails on two whole records followed by one more byte *)
C13_Witness ==
    /\ event = "try_get_all"
    /\ Len(input) = 25
    /\ returned = Short

-----------------------------------------------------------------------------
(* The HTTP response decoder on its own: decode_bencode::<HttpScrapeResponse> *)
(* and then result(), on bodies of every shape.                               *)

K_aa == <<97, 97>>
K_zz == <<122, 122>>
K_a == <<97>>
K_name == <<110, 97, 109, 101>>

Opt(S) == {None} \cup {Some(x) : x \in S}
OptPair(key, o) == IF o.some THEN <<Pair(key, o.val)>> ELSE << >>

(* entries of files: well-formed ones and ill-formed ones *)
EntryWithExtras ==
    BDict(<<Pair(K_a, BList), Pair(K_complete, BInt(7)),
            Pair(K_downloaded, BInt(8)), Pair(K_incomplete, BInt(9)),
            Pair(K_name, BBytes(<<120>>))>>)
EntryWithout(key) ==
    BDict(SelectSeq(<<Pair(K_complete, BInt(1)), Pair(K_downloaded, BInt(2)),
                      Pair(K_incomplete, BInt(3))>>,
                    LAMBDA q : q.key # key))
EntryOnlyDownloaded == BDict(<<Pair(K_downloaded, BInt(2))>>)

FilesValues ==
    { BDict(<< >>),
      BDict(<<Pair(InfoHash(170), FilesEntry(1, 2, 3))>>),
      BDict(<<Pair(InfoHash(170), FilesEntry(1, 2, 3)),
              Pair(InfoHash(187), FilesEntry(4, 5, 6))>>),
      BDict(<<Pair(InfoHash(170), EntryWithExtras)>>),
      BDict(<<Pair(InfoHash(170), EntryWithout(K_complete))>>),
      BDict(<<Pair(InfoHash(170), EntryWithout(K_downloaded))>>),
      BDict(<<Pair(InfoHash(170), EntryWithout(K_incomplete))>>),
      BDict(<<Pair(InfoHash(170), EntryOnlyDownloaded)>>),
      BDict(<<Pair(InfoHash(170), FilesEntry(1, 2, 3)),
              Pair(InfoHash(187), EntryWithout(K_downloaded))>>),
      BDict(<<Pair(<<1, 2, 3>>, FilesEntry(1, 2, 3))>>),
      BDict(<<Pair(InfoHash(170) \o <<170>>, EntryWithout(K_complete))>>),
      BDict(<<Pair(InfoHash(170), FilesEntry(1, 2, 3)),
              Pair(<<187>>, FilesEntry(4, 5, 6))>>),
      BDict(<<Pair(InfoHash(170), BInt(1))>>),
      BDict(<<Pair(InfoHash(170), FilesEntry(1, 0 - 2, 3))>>),
      BDict(<<Pair(InfoHash(170),
                   BDict(<<Pair(K_complete, BBytes(<<49>>)),
                           Pair(K_downloaded, BInt(2)),
                           Pair(K_incomplete, BInt(3))>>))>>),
      BList }
FailureValues == {BBytes(<<110, 111, 255>>), BInt(1)}
Seconds == {BNone, BMalformed, BInt(0)}

DictBodies ==
    {[first |-> BDict(OptPair(K_aa, before) \o OptPair(K_failure_reason, fr)
                          \o OptPair(K_files, fl) \o OptPair(K_zz, after)),
      second |-> sec] :
        before \in Opt({BInt(7)}), fr \in Opt(FailureValues),
        fl \in Opt(FilesValues),
        after \in Opt({BDict(<<Pair(K_files, BInt(1))>>)}), sec \in Seconds}
DecodeInputs ==
    DictBodies
        \cup {[first |-> o, second |-> sec] :
                 o \in {BNone, BMalformed, BInt(5), BList, BBytes(<<100, 101>>)},
                 sec \in Seconds}

DecodeInit ==
    /\ MainIdle
    /\ pc = "body"
    /\ event = "Init"
    /\ input \in DecodeInputs
    /\ returned = None

(* HttpTracker::scrape: decode_bencode::<HttpScrapeResponse>(&buf) *)
DecodeBencode ==
    /\ pc = "body"
    /\ pc' = "decoded"
    /\ event' = "decode_bencode"
    /\ returned' = decode_bencode(input)
    /\ UNCHANGED <<main, input>>

(* HttpTracker::scrape: .map_err(HttpTrackerError::ParseResponse)?.result() *)
DecodeResult ==
    /\ pc = "decoded"
    /\ pc' = "result"
    /\ event' = "result"
    /\ returned' = IF returned.ok THEN HttpScrapeResponse_result(returned.val)
                   ELSE Err(ParseResponse(returned.err))
    /\ UNCHANGED <<main, input>>

DecodeNext == DecodeBencode \/ DecodeResult

SpecDecode == DecodeInit /\ [][DecodeNext]_vars

-----------------------------------------------------------------------------
(* Reading a body, for the properties below *)

HasKey(pairs, key) == \E i \in 1..Len(pairs) : pairs[i].key = key
ValueOf(pairs, key) == pairs[CHOOSE i \in 1..Len(pairs) : pairs[i].key = key].v
CounterKeys == {K_complete, K_downloaded, K_incomplete}
IsCounter(o) == o.t = "int" /\ o.i >= 0

(* an entry with the three counters, each a u32 *)
GoodEntry(e) ==
    /\ e.t = "dict"
    /\ \A key \in CounterKeys :
           HasKey(e.pairs, key) /\ IsCounter(ValueOf(e.pairs, key))

(* the i-th pair of the files value v is a 20-byte key with a good entry *)
GoodPair(v, i) ==
    Len(v.pairs[i].key) = InfoHashLENGTH /\ GoodEntry(v.pairs[i].v)
GoodFiles(v) == v.t = "dict" /\ \A i \in 1..Len(v.pairs) : GoodPair(v, i)

(* the map a good files value stands for *)
ExpectedMap(v) ==
    [h \in {v.pairs[i].key : i \in 1..Len(v.pairs)} |->
        LET e == ValueOf(v.pairs, h).pairs IN
        [complete |-> ValueOf(e, K_complete).i,
         incomplete |-> ValueOf(e, K_incomplete).i,
         downloaded |-> ValueOf(e, K_downloaded).i]]

(* the body is one dictionary and nothing else *)
OneDictionary == input.first.t = "dict" /\ input.second = BNone
TopPairs == input.first.pairs

-----------------------------------------------------------------------------
(* C14 *)

(* C14 as claimed: for every body that is one bencode dictionary, the     *)
(* keys present decide the outcome: failure reason gives Failure, files    *)
(* alone gives Success, neither gives MissingField("files").               *)
C14_KeysDecide ==
    (pc = "result" /\ OneDictionary) =>
        IF HasKey(TopPairs, K_failure_reason)
        THEN ~returned.ok /\ returned.err.kind = "Failure"
        ELSE IF HasKey(TopPairs, K_files)
        THEN returned.ok
        ELSE returned = Err(ParseResponse(Bendy("MissingField", "files")))

(* the values of the recognized keys decode *)
C14_ValuesDecode ==
    /\ HasKey(TopPairs, K_failure_reason) =>
           ValueOf(TopPairs, K_failure_reason).t = "bytes"
    /\ HasKey(TopPairs, K_files) => GoodFiles(ValueOf(TopPairs, K_files))

(* C14 amended: for a body that is one bencode dictionary in which the    *)
(* value of failure reason, if present, is a byte string and the value of  *)
(* files, if present, decodes without error, the keys present decide the   *)
(* outcome: failure reason, with or without files, gives Failure(message); *)
(* files alone gives Success(map); neither gives MissingField("files").    *)
C14_KeysDecideWhenValuesDecode ==
    (pc = "result" /\ OneDictionary /\ C14_ValuesDecode) =>
        IF HasKey(TopPairs, K_failure_reason)
        THEN returned = Err(Failure(into_string_lossy(
                                ValueOf(TopPairs, K_failure_reason).b)))
        ELSE IF HasKey(TopPairs, K_files)
        THEN returned = Ok(ExpectedMap(ValueOf(TopPairs, K_files)))
        ELSE returned = Err(ParseResponse(Bendy("MissingField", "files")))

(* failure reason wins over a files map with an entry *)
C14_Witness ==
    /\ pc = "result"
    /\ OneDictionary
    /\ HasKey(TopPairs, K_failure_reason)
    /\ HasKey(TopPairs, K_files)
    /\ GoodFiles(ValueOf(TopPairs, K_files))
    /\ Len(ValueOf(TopPairs, K_files).pairs) = 2
    /\ returned = Err(Failure(<<110, 111, 65533>>))

-----------------------------------------------------------------------------
(* C15 *)

(* the files value v has an entry that is not good; the first such one *)
HasBadPair(v) == \E i \in 1..Len(v.pairs) : ~GoodPair(v, i)
FirstBadPair(v) ==
    v.pairs[CHOOSE j \in 1..Len(v.pairs) :
                /\ ~GoodPair(v, j)
                /\ \A i \in 1..(j - 1) : GoodPair(v, i)]

(* the entry e is a dictionary whose counters are u32s but not all there *)
LacksCounter(e) ==
    /\ e.t = "dict"
    /\ \A key \in CounterKeys :
           HasKey(e.pairs, key) => IsCounter(ValueOf(e.pairs, key))
    /\ \E key \in CounterKeys : ~HasKey(e.pairs, key)

(* the first counter, in the order complete, downloaded, incomplete, that  *)
(* the entry e lacks                                                       *)
FirstLacking(e) ==
    IF ~HasKey(e.pairs, K_complete) THEN "files.*.complete"
    ELSE IF ~HasKey(e.pairs, K_downloaded) THEN "files.*.downloaded"
    ELSE "files.*.incomplete"

(* a files dictionary with a bad entry is reached by the decoder *)
C15_Case ==
    /\ pc = "result"
    /\ input.first.t = "dict"
    /\ HasKey(TopPairs, K_failure_reason) =>
           ValueOf(TopPairs, K_failure_reason).t = "bytes"
    /\ HasKey(TopPairs, K_files)
    /\ ValueOf(TopPairs, K_files).t = "dict"
    /\ HasBadPair(ValueOf(TopPairs, K_files))

(* C15: when the first entry of files that is not well-formed has a key   *)
(* that is not 20 bytes long, the decode fails with MalformedContent; when *)
(* it lacks one of complete, downloaded, incomplete, the decode fails with *)
(* MissingField naming that field (the first one lacking); in either case  *)
(* no map is returned, whatever well-formed entries stand around it.       *)
C15_BadEntryFailsAll ==
    C15_Case =>
        LET bad == FirstBadPair(ValueOf(TopPairs, K_files)) IN
        /\ ~returned.ok
        /\ returned.err.kind = "ParseResponse"
        /\ Len(bad.key) # InfoHashLENGTH =>
               returned.err.source = Bendy("MalformedContent", "files.<key>")
        /\ (Len(bad.key) = InfoHashLENGTH /\ LacksCounter(bad.v)) =>
               returned.err.source = Bendy("MissingField", FirstLacking(bad.v))

(* a well-formed entry followed by one without downloaded *)
C15_Witness ==
    /\ C15_Case
    /\ Len(ValueOf(TopPairs, K_files).pairs) = 2
    /\ GoodPair(ValueOf(TopPairs, K_files), 1)
    /\ returned = Err(ParseResponse(Bendy("MissingField", "files.*.downloaded")))

-----------------------------------------------------------------------------
(* C16 *)

(* C16: decode_bencode gives NoData when the input holds no object, and   *)
(* TrailingData when the first object decodes and anything follows it,     *)
(* be it another object or an error; it gives the decoded value only when  *)
(* the input is that one object and nothing else.                          *)
C16_NoDataTrailingData ==
    pc = "decoded" =>
        /\ input.first = BNone => returned = Err(NoData)
        /\ (input.first.t \in {"dict", "int", "bytes", "list"}
               /\ decode_bencode_object(input.first).ok
               /\ input.second # BNone) =>
               returned = Err(TrailingData)
        /\ returned.ok =>
               /\ input.second = BNone
               /\ input.first.t = "dict"
               /\ returned = decode_bencode_object(input.first)

(* a decodable dictionary followed by garbage *)
C16_Witness ==
    /\ pc = "decoded"
    /\ input.second = BMalformed
    /\ input.first.t = "dict"
    /\ HasKey(TopPairs, K_files)
    /\ GoodFiles(ValueOf(TopPairs, K_files))
    /\ returned = Err(TrailingData)

-----------------------------------------------------------------------------
(* C17 *)

(* the object without the keys the decoder does not recognize, at the top  *)
(* level and in every entry of files                                       *)
StripEntry(q) ==
    IF q.v.t # "dict" THEN q
    ELSE Pair(q.key, BDict(SelectSeq(q.v.pairs, LAMBDA c : c.key \in CounterKeys)))
StripFiles(v) ==
    IF v.t # "dict" THEN v
    ELSE BDict([i \in 1..Len(v.pairs) |-> StripEntry(v.pairs[i])])
StripTop(o) ==
    LET kept == SelectSeq(o.pairs,
                          LAMBDA q : q.key \in {K_files, K_failure_reason})
    IN BDict([i \in 1..Len(kept) |->
                 IF kept[i].key = K_files
                 THEN Pair(K_files, StripFiles(kept[i].v))
                 ELSE kept[i]])

(* the body has a key the decoder does not recognize *)
HasUnrecognized ==
    /\ input.first.t = "dict"
    /\ StripTop(input.first) # input.first

(* C17: the outcome of decoding a dictionary is the outcome of decoding   *)
(* it without its unrecognized keys, those of the top level and those of   *)
(* the entries of files: the same Success map or the same Failure message. *)
C17_UnrecognizedIgnored ==
    (pc = "result" /\ input.first.t = "dict") =>
        returned = http_reply([first |-> StripTop(input.first),
                               second |-> input.second])

(* unrecognized keys before and after files and inside its entry, and a   *)
(* map all the same                                                        *)
C17_Witness ==
    /\ pc = "result"
    /\ HasUnrecognized
    /\ HasKey(TopPairs, K_aa) /\ HasKey(TopPairs, K_zz)
    /\ HasKey(TopPairs, K_files)
    /\ ValueOf(TopPairs, K_files) = BDict(<<Pair(InfoHash(170), EntryWithExtras)>>)
    /\ returned = Ok(ZipCollect(<<InfoHash(170)>>,
                                <<[complete |-> 7, incomplete |-> 9,
                                   downloaded |-> 8]>>))

-----------------------------------------------------------------------------
(* Tracker construction: impl FromStr for Tracker, with TryFrom<Url> for   *)
(* HttpTracker and for UdpUrl.  A Url is what Url::parse gives: a record   *)
(* [scheme, host, port, path, query] with optional host, port and query;   *)
(* a path and a query are sequences of characters.                         *)

UnsupportedScheme(sch) == [kind |-> "UnsupportedScheme", scheme |-> sch]
UrlParseError == [kind |-> "Url"]
NoHost == [kind |-> "NoHost"]
NoAnnounce == [kind |-> "NoAnnounce"]
NoUdpPort == [kind |-> "NoUdpPort"]

(* str::contains *)
Contains(str, sub) ==
    \E i \in 0..(Len(str) - Len(sub)) : SubSeq(str, i + 1, i + Len(sub)) = sub

Announce == <<"a", "n", "n", "o", "u", "n", "c", "e">>

(* impl TryFrom<Url> for HttpTracker *)
HttpTracker_try_from(url) ==
    IF url.scheme # "http" /\ url.scheme # "https"
    THEN Err(UnsupportedScheme(url.scheme))
    ELSE IF ~url.host.some THEN Err(NoHost)
    ELSE IF ~Contains(url.path, Announce) THEN Err(NoAnnounce)
    ELSE Ok([variant |-> "Http", url |-> url])

(* mutant: a UDP URL without a port gets port 80 *)
UdpUrl_try_from_default_port(url) ==
    IF url.scheme # "udp" THEN Err(UnsupportedScheme(url.scheme))
    ELSE IF ~url.host.some THEN Err(NoHost)
    ELSE Ok([host |-> url.host.val,
             port |-> IF url.port.some THEN url.port.val ELSE 80,
             urldata |-> url.path])

(* impl TryFrom<Url> for UdpUrl *)
UdpUrl_try_from(url) ==
    IF url.scheme # "udp" THEN Err(UnsupportedScheme(url.scheme))
    ELSE IF ~url.host.some THEN Err(NoHost)
    ELSE IF ~url.port.some THEN Err(NoUdpPort)
    ELSE Ok([host |-> url.host.val,
             port |-> url.port.val,
             urldata |-> IF url.query.some
                         THEN url.path \o <<"?">> \o url.query.val
                         ELSE url.path])

(* impl TryFrom<Url> for UdpTracker *)
UdpTracker_try_from(url) ==
    LET r == UdpUrl_try_from(url) IN
    IF r.ok THEN Ok([variant |-> "Udp", url |-> r.val]) ELSE r

(* impl FromStr for Tracker; parsed is what Url::parse(s) gives *)
Tracker_from_str(parsed) ==
    IF ~parsed.ok THEN Err(UrlParseError)
    ELSE LET url == parsed.val IN
         IF url.scheme \in {"http", "https"} THEN HttpTracker_try_from(url)
         ELSE IF url.scheme = "udp" THEN UdpTracker_try_from(url)
         ELSE Err(UnsupportedScheme(url.scheme))

(* The URLs.  A URL of a special scheme (http, https, ws) has a host; a    *)
(* port comes with a host.                                                 *)
SpecialSchemes == {"http", "https", "ws"}
Schemes == SpecialSchemes \cup {"udp", "magnet"}
Hosts == {<<"t", ".", "e">>}
Ports == {80, 6969}
Paths ==
    { << >>, <<"/">>, <<"/">> \o Announce,
      <<"/", "x", "/">> \o Announce \o <<".", "p", "h", "p">>,
      <<"/">> \o SubSeq(Announce, 1, 7),
      <<"/", "a", "n", "n", "o", "u", "/", "n", "c", "e">>,
      <<"/", "A", "n", "n", "o", "u", "n", "c", "e">>,
      <<"/", "s", "c", "r", "a", "p", "e">> }
Queries == {<<"k", "=", "v">>}
Urls ==
    {u \in [scheme : Schemes, host : Opt(Hosts), port : Opt(Ports),
            path : Paths, query : Opt(Queries)] :
        /\ u.scheme \in SpecialSchemes => u.host.some
        /\ u.port.some => u.host.some}
UrlInputs == {Err(UrlParseError)} \cup {Ok(u) : u \in Urls}

UrlInit ==
    /\ MainIdle
    /\ pc = "arguments"
    /\ event = "Init"
    /\ input \in UrlInputs
    /\ returned = None

(* clap parses Arguments::tracker with Tracker::from_str *)
FromStr ==
    /\ pc = "arguments"
    /\ pc' = "constructed"
    /\ event' = "from_str"
    /\ returned' = Tracker_from_str(input)
    /\ UNCHANGED <<main, input>>

UrlNext == FromStr

SpecUrl == UrlInit /\ [][UrlNext]_vars

-----------------------------------------------------------------------------
(* C18 *)

(* C18: construction from a parsed URL fails with the first error that    *)
(* applies in the order: scheme not http, https or udp: UnsupportedScheme; *)
(* no host: NoHost; then for http and https no "announce" in the path:     *)
(* NoAnnounce, and for udp no port: NoUdpPort; otherwise it succeeds.  A   *)
(* constructed HttpTracker has scheme http or https, a host and "announce" *)
(* in its path; a constructed UdpTracker comes from a URL of scheme udp    *)
(* and holds its host and its explicit port.                               *)
C18_ConstructionOrder ==
    (pc = "constructed" /\ input.ok) =>
        LET u == input.val IN
        /\ IF u.scheme \notin {"http", "https", "udp"}
           THEN returned = Err(UnsupportedScheme(u.scheme))
           ELSE IF u.host = None THEN returned = Err(NoHost)
           ELSE IF u.scheme = "udp"
           THEN IF u.port = None THEN returned = Err(NoUdpPort)
                ELSE returned.ok /\ returned.val.variant = "Udp"
           ELSE IF \A i \in 1..Len(u.path) :
                       i + 7 > Len(u.path)
                          \/ <<u.path[i], u.path[i + 1], u.path[i + 2],
                               u.path[i + 3], u.path[i + 4], u.path[i + 5],
                               u.path[i + 6], u.path[i + 7]>> # Announce
           THEN returned = Err(NoAnnounce)
           ELSE returned.ok /\ returned.val.variant = "Http"
        /\ (returned.ok /\ returned.val.variant = "Http") =>
               /\ returned.val.url = u
               /\ u.scheme \in {"http", "https"}
               /\ u.host.some
               /\ Contains(u.path, Announce)
        /\ (returned.ok /\ returned.val.variant = "Udp") =>
               /\ u.scheme = "udp"
               /\ u.host.some /\ returned.val.url.host = u.host.val
               /\ u.port.some /\ returned.val.url.port = u.port.val

(* a UDP URL with a host, a path with "announce" and no port *)
C18_Witness ==
    /\ pc = "constructed"
    /\ input.ok
    /\ input.val.scheme = "udp"
    /\ input.val.host.some
    /\ Contains(input.val.path, Announce)
    /\ returned = Err(NoUdpPort)

-----------------------------------------------------------------------------
(* C19 *)

(* C19: with no info-hash requested nothing is awaited and nothing is     *)
(* sent: no lookup, no HTTP request, no datagram, no transaction ID, no    *)
(* instant passes; run ends at once without an error and prints nothing.   *)
C19_NoHashesNoWork ==
    Len(hashes) = 0 =>
        /\ pc \in {"init", "done"}
        /\ sends = 0 /\ draws = 0 /\ wire = << >>
        /\ now = 0
        /\ result = None
        /\ output = << >>

(* run has ended for an HTTP tracker and no hashes *)
C19_Witness ==
    /\ Len(hashes) = 0
    /\ tracker = "Http"
    /\ pc = "done"
    /\ event = "Run"
    /\ output = << >>

-----------------------------------------------------------------------------
(* C20 *)

(* the requested hashes are pairwise distinct *)
DistinctHashes == \A i, j \in 1..Len(hashes) : hashes[i] = hashes[j] => i = j

(* a map has come back from a SCRAPE reply with as many records as hashes *)
C20_Case ==
    /\ event = "ScrapeReply"
    /\ received.some
    /\ result.some /\ result.val.ok
    /\ DistinctHashes
    /\ ReplyRecords(received.val) = Len(hashes)

(* C20: the map of a successful UDP scrape has only requested hashes as   *)
(* keys; with N distinct hashes and N records its keys are the N hashes,   *)
(* the i-th hash, which is also the i-th hash of the SCRAPE request, goes  *)
(* to the i-th record, and a record's first u32 is complete, its second    *)
(* downloaded and its third incomplete.                                    *)
C20_PositionalPairing ==
    /\ (event = "ScrapeReply" /\ result.some /\ result.val.ok) =>
           DOMAIN result.val.val \subseteq {hashes[i] : i \in 1..Len(hashes)}
    /\ C20_Case =>
           /\ DOMAIN result.val.val = {hashes[i] : i \in 1..Len(hashes)}
           /\ \A i \in 1..Len(hashes) :
                  /\ result.val.val[hashes[i]] = RecordAt(Drop(received.val, 8), i)
                  /\ SubSeq(wire, 17 + InfoHashLENGTH * (i - 1),
                            16 + InfoHashLENGTH * i) = hashes[i]

(* two distinct hashes and two records *)
C20_Witness ==
    /\ C20_Case
    /\ Len(hashes) = 2
    /\ result.val.val[hashes[2]] =
           [complete |-> 513, incomplete |-> 34, downloaded |-> 18]

-----------------------------------------------------------------------------
(* C21 *)

(* the map Tracker::scrape returned *)
ResultMap == result.val.val

(* run has printed after a successful scrape *)
C21_Case == pc = "done" /\ result.some /\ result.val.ok

(* C21: after a successful scrape there is exactly one output entry per    *)
(* requested info-hash, in the request order; the entry of a hash that is  *)
(* a key of the result map carries that hash's three counters, the entry   *)
(* of a hash that is absent from the map is the not-tracked indicator.     *)
C21_OneEntryPerHash ==
    C21_Case =>
        /\ Len(output) = Len(hashes)
        /\ \A i \in 1..Len(hashes) :
               /\ output[i].info_hash = hashes[i]
               /\ hashes[i] \in DOMAIN ResultMap =>
                      output[i].scrape = Some(ResultMap[hashes[i]])
               /\ hashes[i] \notin DOMAIN ResultMap =>
                      output[i].scrape = None

-----------------------------------------------------------------------------
(* The session on its own: scrape's loop entered with any cached           *)
(* connection, expired or not, at an instant before, at or after its       *)
(* expiration.                                                             *)

(* what UdpTrackerSession::conn can hold when get_connection is called *)
CachedConnections ==
    {None} \cup {Some([id |-> [hi |-> 1, lo |-> 7], expiration |-> e]) :
                    e \in {59, 60, 61, 90}}

SessionInit ==
    /\ tracker = "Udp"
    /\ hashes = <<InfoHash(170), InfoHash(187)>>
    /\ timeout = 200 /\ tracker_timeout = 200
    /\ runDeadline = 200 /\ trkDeadline = 200
    /\ now = 60
    /\ conn \in CachedConnections
    /\ pc = "get_connection"
    /\ transaction_id = 0 /\ msg = << >> /\ n = 0 /\ attDeadline = 0
    /\ result = None /\ output = << >>
    /\ sends = 0 /\ k = 0 /\ draws = 0 /\ wire = << >> /\ exchFirst = << >>
    /\ received = None /\ dropped = None
    /\ event = "Init"
    /\ input = None /\ returned = None

(* the top of scrape's loop: get_connection up to its first suspension *)
GetConnection(send_ok) ==
    /\ pc = "get_connection"
    /\ event' = "GetConnection"
    /\ LoopIteration(conn, send_ok, now)
    /\ received' = None
    /\ UNCHANGED <<config, now, runDeadline, trkDeadline, conn, dropped, pure>>

SessionNext ==
    \/ \E send_ok \in BOOLEAN : GetConnection(send_ok)
    \/ \E send_ok \in BOOLEAN : RecvTimeout(send_ok)
    \/ \E d \in Datagrams, delay \in Delays, send_ok \in BOOLEAN :
           ConnectReply(d, delay, send_ok)
    \/ \E d \in Datagrams, delay \in Delays : ScrapeReply(d, delay)
    \/ \E delay \in Delays : RecvError(delay)
    \/ \E send_ok \in BOOLEAN : ConnExpire(send_ok)
    \/ TrackerTimeout
    \/ RunTimeout

SpecSession == SessionInit /\ [][SessionNext]_vars

-----------------------------------------------------------------------------
(* C22 *)

(* C22: get_connection goes on with the cached connection, unchanged,      *)
(* exactly when one is cached and the instant is strictly before its       *)
(* expiration, and builds a CONNECT request otherwise; a connection that   *)
(* gets cached expires 60 seconds after the instant its CONNECT response   *)
(* was accepted, however long the CONNECT exchange had been running.       *)
C22_ReuseBeforeExpiration ==
    [][/\ event' = "GetConnection" =>
              IF conn.some /\ now < conn.val.expiration
              THEN /\ IsScrapeReq(msg')
                   /\ ReqConnId(msg') = conn.val.id
                   /\ conn' = conn
                   /\ pc' = "scrape" \/ result' = Some(Err(IoError("Send")))
              ELSE /\ IsConnectReq(msg')
                   /\ pc' = "connect" \/ result' = Some(Err(IoError("Send")))
       /\ (event' = "ConnectReply" /\ conn' # conn) =>
              /\ conn'.some
              /\ conn'.val.expiration = now' + CONNECTION_LIFETIME
              /\ conn'.val.id = ReplyConnId(received'.val)]_vars

(* a connection one second short of its expiration has been reused *)
C22_Witness ==
    /\ event = "GetConnection"
    /\ pc = "scrape"
    /\ conn.some
    /\ now = conn.val.expiration - 1
    /\ ReqConnId(wire) = conn.val.id

-----------------------------------------------------------------------------
(* C23 *)

(* C23: the cached connection changes in two steps only: a CONNECT reply   *)
(* that connect accepts sets it to the new connection, and the expiry of   *)
(* the connection during a SCRAPE exchange clears it.  A receive timeout,  *)
(* a CONNECT exchange that fails and a SCRAPE reply, rejected or not,      *)
(* leave it as it was.                                                     *)
C23_ConnChangesTwoWays ==
    [][/\ conn' # conn =>
              \/ /\ event' = "ConnectReply" /\ pc = "connect"
                 /\ connect_reply(received'.val, transaction_id, now').ok
                 /\ conn' = Some(connect_reply(received'.val, transaction_id,
                                               now').val)
              \/ /\ event' = "ConnExpire" /\ pc = "scrape"
                 /\ now' = conn.val.expiration
                 /\ conn' = None
       /\ event' \in {"RecvTimeout", "RecvError", "ScrapeReply"} => conn' = conn
       /\ (/\ event' = "ConnectReply"
           /\ ~connect_reply(received'.val, transaction_id, now').ok) =>
              conn' = conn /\ pc' = "done"]_vars

(* a SCRAPE reply was rejected for its transaction ID and the connection   *)
(* is still cached                                                         *)
C23_Witness ==
    /\ event = "ScrapeReply"
    /\ received.some /\ Len(received.val) >= 8
    /\ result = Some(Err(XactionMismatch(transaction_id, ReplyXid(received.val))))
    /\ conn.some
    /\ now < conn.val.expiration

-----------------------------------------------------------------------------
(* C24 *)

(* a whole CONNECT response has been handed to scrape *)
C24_ConnectReplyInScrape ==
    /\ event = "ScrapeReply"
    /\ received.some
    /\ Len(received.val) >= 16
    /\ ReplyAction(received.val) = CONNECT_ACTION

(* a whole SCRAPE response that answers the SCRAPE request of the          *)
(* connection dropped last has been handed to scrape                       *)
C24_LateScrapeReply ==
    /\ event = "ScrapeReply"
    /\ received.some
    /\ dropped.some
    /\ WholeRecords(received.val)
    /\ ReplyAction(received.val) = SCRAPE_ACTION
    /\ ReplyXid(received.val) = dropped.val

(* every datagram chat returns ends its exchange: the call returns, or an  *)
(* accepted CONNECT reply is followed by the SCRAPE exchange               *)
C24_HandedOver ==
    event' \in {"ConnectReply", "ScrapeReply"} =>
        \/ pc' = "done" /\ result'.some
        \/ /\ pc = "connect" /\ pc' = "scrape"
           /\ conn'.some /\ draws' = draws + 1

(* C24 as claimed: no datagram is discarded; a CONNECT response that       *)
(* arrives during a SCRAPE exchange fails the call with BadAction          *)
(* (expected 2, got 0), and a reply to the SCRAPE request of a dropped     *)
(* connection that arrives during the next SCRAPE exchange fails it with   *)
(* XactionMismatch.                                                        *)
C24_LateReplyFails ==
    [][/\ C24_HandedOver
       /\ C24_ConnectReplyInScrape' =>
              result' = Some(Err(BadAction(SCRAPE_ACTION, CONNECT_ACTION)))
       /\ C24_LateScrapeReply' =>
              result' = Some(Err(XactionMismatch(transaction_id', dropped'.val)))]_vars

(* C24 amended: the late SCRAPE reply fails the call with XactionMismatch  *)
(* when the transaction ID drawn for the running exchange differs from     *)
(* the one of the dropped exchange; when the two draws are equal the late  *)
(* reply is accepted and its records are returned.                         *)
C24_LateReplyFailsUnlessSameId ==
    [][/\ C24_HandedOver
       /\ C24_ConnectReplyInScrape' =>
              result' = Some(Err(BadAction(SCRAPE_ACTION, CONNECT_ACTION)))
       /\ (C24_LateScrapeReply' /\ dropped'.val # transaction_id') =>
              result' = Some(Err(XactionMismatch(transaction_id', dropped'.val)))
       /\ (C24_LateScrapeReply' /\ dropped'.val = transaction_id') =>
              result' = Some(scrape_reply(received'.val, transaction_id', hashes'))
                  /\ result'.val.ok]_vars

(* the reply to the SCRAPE request of the dropped connection has arrived   *)
(* in the SCRAPE exchange of the next connection and failed the call       *)
C24_Witness ==
    /\ C24_LateScrapeReply
    /\ dropped.val # transaction_id
    /\ ReplyRecords(received.val) = Len(hashes)
    /\ result = Some(Err(XactionMismatch(transaction_id, dropped.val)))

-----------------------------------------------------------------------------
(* C25 *)

(* C25: every exchange, whatever came before it in the call, starts with   *)
(* n = 0, and its first transmission waits 15 seconds for a reply.         *)
C25_BackoffPerExchange ==
    [][draws' = draws + 1 =>
           /\ n' = 0
           /\ pc' \in {"connect", "scrape"} =>
                  /\ k' = 0
                  /\ sends' = sends + 1
                  /\ attDeadline' = now' + CHAT_TIMEOUT]_vars

(* a CONNECT exchange has started with a 15-second timeout after the       *)
(* SCRAPE exchange of the dropped connection had timed out twice or more   *)
C25_Witness ==
    /\ event = "ConnExpire"
    /\ pc = "connect"
    /\ draws >= 3
    /\ sends - draws >= 2
    /\ n = 0
    /\ attDeadline = now + CHAT_TIMEOUT

-----------------------------------------------------------------------------
(* C26 *)

(* the instant the k-th retransmission of a SCRAPE request is due, counted *)
(* from the instant its connection was established                         *)
C26_Offset(i) == CHAT_TIMEOUT * (Pow2(i) - 1)

(* the call ended while an exchange was waiting, with no datagram handed   *)
(* over and no I/O error                                                   *)
C26_EndsUnanswered ==
    /\ pc \in {"connect", "scrape"} /\ pc' = "done"
    /\ received' = None
    /\ result' \notin {Some(Err(IoError("Send"))), Some(Err(IoError("Recv")))}

(* C26: a SCRAPE request is transmitted 0, 15 and 45 seconds after its     *)
(* connection was established and no more: its receive timeouts are 15,    *)
(* 30 and 60 seconds, never the 3840-second ceiling, and the connection    *)
(* is dropped 60 seconds after it was established, after exactly three     *)
(* transmissions, whereupon a CONNECT exchange starts.  With no reply to   *)
(* any SCRAPE request and no I/O error the call ends only by an overall    *)
(* deadline, with Timeout from Tracker::scrape.                            *)
C26_ThreeScrapesPerConnection ==
    [][/\ pc' = "scrape" =>
              /\ k' \in 0..2
              /\ n' = k'
              /\ now' = conn'.val.expiration - CONNECTION_LIFETIME + C26_Offset(k')
              /\ attDeadline' - now' = maxtime(k')
              /\ maxtime(k') <= CONNECTION_LIFETIME
              /\ maxtime(k') < maxtime(MAX_SHIFT)
       /\ event' = "ConnExpire" =>
              /\ k = 2
              /\ now' = conn.val.expiration
              /\ now' = now + CHAT_TIMEOUT
              /\ pc' = "connect" \/ result' = Some(Err(IoError("Send")))
       /\ C26_EndsUnanswered =>
              /\ event' \in {"TrackerTimeout", "RunTimeout"}
              /\ now' \in {trkDeadline, runDeadline}
              /\ event' = "TrackerTimeout" => result' = Some(Err(Timeout))
              /\ event' = "RunTimeout" => result' = None]_vars

(* the third transmission of the SCRAPE request of a second connection,    *)
(* 45 seconds after that connection was established                        *)
C26_Witness ==
    /\ pc = "scrape"
    /\ dropped.some
    /\ draws >= 4
    /\ k = 2
    /\ sends >= 7
    /\ now = conn.val.expiration - CHAT_TIMEOUT
    /\ timeout > CONNECTION_LIFETIME /\ tracker_timeout > CONNECTION_LIFETIME

-----------------------------------------------------------------------------
(* C27 *)

(* the overall deadline: whichever of the two timeouts is due first *)
C27_Overall == Min2(timeout, tracker_timeout)

(* a UDP call has been ended by an overall deadline and no datagram was    *)
(* ever handed over to the session                                         *)
C27_NoReply ==
    /\ tracker = "Udp"
    /\ pc = "done"
    /\ event \in {"TrackerTimeout", "RunTimeout"}
    /\ conn = None /\ dropped = None

(* two CONNECT transmissions, at 0 and 15 seconds, and the end at 30 *)
C27_TwoConnects ==
    /\ draws = 1
    /\ sends = 2
    /\ IsConnectReq(wire)
    /\ attDeadline = CHAT_TIMEOUT + maxtime(1)
    /\ now = 30
    /\ event = "TrackerTimeout" => result = Some(Err(Timeout))

(* the instant of the first transmission of the exchange the call was in *)
C27_FirstSent == attDeadline - maxtime(n) - CHAT_TIMEOUT * (Pow2(k) - 1)

(* C27 as claimed: with an overall timeout of 30 seconds a tracker that    *)
(* never replies gets exactly two CONNECT requests, at 0 and 15 seconds,   *)
(* and no SCRAPE request, before the call ends with Timeout; and with an   *)
(* overall timeout of at most 60 seconds no connection ever expires.       *)
C27_ShortTimeout ==
    /\ (C27_NoReply /\ C27_Overall = 30) => C27_TwoConnects
    /\ C27_Overall <= CONNECTION_LIFETIME =>
           dropped = None /\ event # "ConnExpire"

(* C27 amended: the two transmissions at 0 and 15 seconds are those of a   *)
(* call whose socket was ready at instant 0, and no connection expires     *)
(* when the overall timeout is less than 60 seconds.                       *)
C27_ShortTimeoutReadySocket ==
    /\ (C27_NoReply /\ C27_Overall = 30 /\ sends > 0 /\ C27_FirstSent = 0) =>
           C27_TwoConnects
    /\ (C27_NoReply /\ C27_Overall = 30) => sends <= 2 /\ draws <= 1
    /\ C27_Overall < CONNECTION_LIFETIME =>
           dropped = None /\ event # "ConnExpire"

(* the call has timed out at 30 seconds after CONNECT requests at 0 and 15 *)
C27_Witness ==
    /\ C27_NoReply
    /\ C27_Overall = 30
    /\ C27_FirstSent = 0
    /\ C27_TwoConnects
    /\ result = Some(Err(Timeout))

-----------------------------------------------------------------------------
(* C28 *)

(* a SCRAPE request goes out: it carries the ID of the cached connection   *)
(* and leaves strictly before that connection's expiration                 *)
C28_SentBeforeExpiry ==
    (sends' = sends + 1 /\ pc' = "scrape") =>
        /\ IsScrapeReq(wire')
        /\ conn'.some
        /\ ReqConnId(wire') = conn'.val.id
        /\ now' < conn'.val.expiration

(* a SCRAPE reply gives the result map *)
C28_MapReturned ==
    /\ event' = "ScrapeReply"
    /\ result'.some /\ result'.val.ok

(* C28 as claimed: no SCRAPE request is transmitted at or after the        *)
(* expiration instant of the connection whose ID it carries, and no map    *)
(* is returned from a SCRAPE reply received at or after that instant.      *)
C28_NothingAtExpiry ==
    [][/\ C28_SentBeforeExpiry
       /\ C28_MapReturned => conn.some /\ now' < conn.val.expiration]_vars

(* C28 amended: no SCRAPE request is transmitted at or after that instant, *)
(* and no map is returned from a SCRAPE reply received after it; a reply   *)
(* received at the expiration instant itself can still give the map.       *)
C28_NothingAfterExpiry ==
    [][/\ C28_SentBeforeExpiry
       /\ C28_MapReturned =>
              /\ conn.some /\ conn' = conn
              /\ now' <= conn.val.expiration
              /\ pc = "scrape"]_vars

(* a map has been returned from a reply received at the expiration instant *)
C28_Witness ==
    /\ event = "ScrapeReply"
    /\ result.some /\ result.val.ok
    /\ conn.some
    /\ now = conn.val.expiration
    /\ DOMAIN result.val.val # {}

-----------------------------------------------------------------------------
(* C29 *)

(* a datagram has been handed to scrape *)
C29_Case == event = "ScrapeReply" /\ received.some

(* it has a transaction ID, and not the one of the request *)
C29_WrongXid ==
    /\ C29_Case
    /\ Len(received.val) >= 8
    /\ ReplyXid(received.val) # transaction_id

(* C29: a SCRAPE reply is checked for the error action first, then for     *)
(* action 2, then for its framing, and for its transaction ID last: with   *)
(* a wrong transaction ID it gives Failure when its action is 3,           *)
(* BadAction when its action is neither 2 nor 3, PacketLen when its        *)
(* action is 2 and the bytes after the header are no whole records, and    *)
(* XactionMismatch only when it is a well-formed SCRAPE response.  A       *)
(* reply of fewer than 4 bytes gives PacketLen.                            *)
C29_CheckOrder ==
    /\ (C29_Case /\ Len(received.val) < 4) => result = Some(Err(PacketLen))
    /\ C29_WrongXid =>
           LET d == received.val
               action == ReplyAction(d) IN
           /\ action = ERROR_ACTION =>
                  result = Some(Err(Failure(into_string_lossy(Drop(d, 8)))))
           /\ action \notin {SCRAPE_ACTION, ERROR_ACTION} =>
                  result = Some(Err(BadAction(SCRAPE_ACTION, action)))
           /\ (action = SCRAPE_ACTION /\ ~WholeRecords(d)) =>
                  result = Some(Err(PacketLen))
           /\ (action = SCRAPE_ACTION /\ WholeRecords(d)) =>
                  result = Some(Err(XactionMismatch(transaction_id, ReplyXid(d))))
    /\ (C29_Case /\ result.some /\ ~result.val.ok
            /\ result.val.err.kind = "XactionMismatch") =>
           /\ ReplyAction(received.val) = SCRAPE_ACTION
           /\ WholeRecords(received.val)

(* a reply with action 2, a wrong transaction ID and a broken last record  *)
(* has given PacketLen                                                     *)
C29_Witness ==
    /\ C29_WrongXid
    /\ ReplyAction(received.val) = SCRAPE_ACTION
    /\ ~WholeRecords(received.val)
    /\ Len(received.val) > 8
    /\ result = Some(Err(PacketLen))

-----------------------------------------------------------------------------
(* C30 *)

(* the body's dictionary has a failure reason string and a files           *)
(* dictionary                                                              *)
C30_Both ==
    /\ pc = "result"
    /\ input.first.t = "dict"
    /\ HasKey(TopPairs, K_failure_reason)
    /\ ValueOf(TopPairs, K_failure_reason).t = "bytes"
    /\ HasKey(TopPairs, K_files)
    /\ ValueOf(TopPairs, K_files).t = "dict"

(* C30: a failure reason string together with a files dictionary that has  *)
(* a malformed entry (a key that is not 20 bytes, an entry lacking a       *)
(* counter or with a counter that is no u32) gives a decode error and not  *)
(* Failure; the failure reason wins only over a files dictionary that      *)
(* decodes.                                                                *)
C30_FailureNeedsFilesToDecode ==
    /\ (C30_Both /\ HasBadPair(ValueOf(TopPairs, K_files))) =>
           /\ ~returned.ok
           /\ returned.err.kind = "ParseResponse"
           /\ returned.err.source.kind = "Bendy"
           /\ returned.err.source.what \in
                  {"MalformedContent", "MissingField", "UnexpectedToken"}
    /\ (C30_Both /\ OneDictionary /\ GoodFiles(ValueOf(TopPairs, K_files))) =>
           returned = Err(Failure(into_string_lossy(
                              ValueOf(TopPairs, K_failure_reason).b)))

(* a failure reason with a files entry whose counter is a byte string *)
C30_Witness ==
    /\ C30_Both
    /\ OneDictionary
    /\ Len(ValueOf(TopPairs, K_files).pairs) = 1
    /\ Len(ValueOf(TopPairs, K_files).pairs[1].key) = InfoHashLENGTH
    /\ returned = Err(ParseResponse(Bendy("UnexpectedToken", "files.*.complete")))

-----------------------------------------------------------------------------
(* C31 *)

(* the positions at which h is requested *)
C31_Occurrences(h) == {i \in 1..Len(hashes) : hashes[i] = h}

(* the hashes requested more than once *)
C31_Repeated ==
    {h \in {hashes[i] : i \in 1..Len(hashes)} :
        Cardinality(C31_Occurrences(h)) > 1}

C31_First(h) ==
    CHOOSE i \in C31_Occurrences(h) : \A j \in C31_Occurrences(h) : i <= j

C31_Last(h) ==
    CHOOSE i \in C31_Occurrences(h) : \A j \in C31_Occurrences(h) : j <= i

(* the positions of h for which the SCRAPE reply carries a record *)
C31_Answered(h) ==
    {i \in C31_Occurrences(h) : i <= ReplyRecords(received.val)}

C31_LastAnswered(h) ==
    CHOOSE i \in C31_Answered(h) : \A j \in C31_Answered(h) : j <= i

(* run has printed the map of a SCRAPE reply *)
C31_Case ==
    /\ pc = "done"
    /\ event = "ScrapeReply"
    /\ received.some
    /\ result.some /\ result.val.ok

(* every occurrence of h but the first is printed as not tracked *)
C31_LaterNotTracked(h) ==
    \A i \in C31_Occurrences(h) \ {C31_First(h)} : output[i].scrape = None

(* C31 as stated: in a UDP scrape that returns a map, an info-hash that is *)
(* requested more than once is a key of the map with the record at the     *)
(* position of its last occurrence as its value, the output entry at its   *)
(* first occurrence carries those counters and the entries at its later    *)
(* occurrences are the not-tracked indicator.                              *)
C31_LastRecordFirstPrinted ==
    C31_Case =>
        \A h \in C31_Repeated :
            /\ h \in DOMAIN ResultMap
            /\ C31_Last(h) <= ReplyRecords(received.val)
            /\ ResultMap[h] = RecordAt(Drop(received.val, 8), C31_Last(h))
            /\ output[C31_First(h)].scrape = Some(ResultMap[h])
            /\ C31_LaterNotTracked(h)

(* C31: in a UDP scrape that returns a map, an info-hash that is requested *)
(* more than once is a key of the map exactly when the reply carries a     *)
(* record at the position of one of its occurrences; its value is then the *)
(* record at the last such position, which is the position of its last     *)
(* occurrence when the reply has a record for every hash, and the output   *)
(* entry at its first occurrence carries those counters; when it is no key *)
(* the entry at its first occurrence is the not-tracked indicator; the     *)
(* entries at its later occurrences are the not-tracked indicator in both  *)
(* cases.                                                                  *)
C31_LastAnsweredFirstPrinted ==
    C31_Case =>
        \A h \in C31_Repeated :
            /\ h \in DOMAIN ResultMap <=> C31_Answered(h) # {}
            /\ h \in DOMAIN ResultMap =>
                   /\ ResultMap[h] =
                          RecordAt(Drop(received.val, 8), C31_LastAnswered(h))
                   /\ output[C31_First(h)].scrape = Some(ResultMap[h])
            /\ (h \in DOMAIN ResultMap
                    /\ ReplyRecords(received.val) >= Len(hashes)) =>
                   ResultMap[h] =
                       RecordAt(Drop(received.val, 8), C31_Last(h))
            /\ h \notin DOMAIN ResultMap =>
                   output[C31_First(h)].scrape = None
            /\ C31_LaterNotTracked(h)

(* the same hash twice and a reply of two records: the first entry has the *)
(* second record's counters, the second entry is not tracked               *)
C31_Witness ==
    /\ C31_Case
    /\ Len(hashes) >= 2
    /\ hashes[1] = hashes[2]
    /\ ReplyRecords(received.val) >= 2
    /\ output[1].scrape =
           Some([complete |-> 513, incomplete |-> 34, downloaded |-> 18])
    /\ output[2].scrape = None

====
